---- MODULE Spec2Model ----
(***************************************************************************)
(* Export subsystem of labcode-log-server (app/api/route/storage_v2.py):   *)
(* the recursive content collector, the batch archive builder, the batch   *)
(* metadata dump, the size estimator and the single-run SQLite dump.       *)
(*                                                                         *)
(* Every request handler is one action.  The relational store (the rows   *)
(* of runs, processes, operations, ports and edges), the Hybrid Access     *)
(* Layer's backing data and the temporary directory are the state;         *)
(* a request's run ids, the order in which the unordered SQL    *)
(* query returns the rows, the name the temp-file generator draws and the  *)
(* step at which snapshot generation fails are the action's inputs.        *)
(***************************************************************************)
EXTENDS Integers, Sequences, FiniteSets, TLC

VARIABLES dbRuns,     \* ids of the rows of table runs
          store,      \* the rows of processes, operations, ports, edges
          hal,        \* per run id: what the Hybrid Access Layer serves
          tempFiles,  \* files present in the temporary directory
          req,        \* the last request (handler, run ids, inputs)
          resp,       \* the last response and what the handler did
          dumpOk,     \* number of single-run dump requests answered 200
          lastEstimate, \* the estimate a client kept, with the ids it asked for
          walk,       \* one call of the content collector, frame by frame
          imp,        \* the YAML port importer: its tables and its reports
          exports,    \* snapshot exports in flight, one per concurrent request
          procOps,    \* table process_operations and the requests working on it
          boot        \* database bootstrap at startup: the file and its tables

exportVars == <<dbRuns, store, hal, tempFiles, req, resp, dumpOk, lastEstimate>>
vars == <<dbRuns, store, hal, tempFiles, req, resp, dumpOk, lastEstimate,
          walk, imp, exports, procOps, boot>>

---------------------------------------------------------------------------
(* Bounds of the model *)

MaxRunId == 2        \* run ids are 1..MaxRunId
MaxReqLen == 2       \* a request carries at most this many run ids
MaxTempNames == 2    \* names the temp-file generator can draw
MaxProcessId == 2    \* process ids are 1..MaxProcessId
MaxRowId == 1        \* operation, port and edge ids are 1..MaxRowId
MaxSingleDumps == 1  \* single-run dumps served while the store is explored
MaxContentLen == 3   \* a previewed content has at most this many bytes

RunIds == 1..MaxRunId
TempNames == 1..MaxTempNames

---------------------------------------------------------------------------
(* Python values *)

\* Optional[T]: None is the empty tuple, a value v is <<v>>
None == <<>>
Some(v) == <<v>>

\* the outcome of a call: a value or a raised exception
Ok(v) == [ok |-> TRUE, val |-> v, exc |-> [type |-> "", msg |-> ""]]
Raise(t, m) == [ok |-> FALSE, val |-> None, exc |-> [type |-> t, msg |-> m]]

\* truthiness of Optional[bytes] / Optional[int]: None, b"" and 0 are falsy
Truthy(opt) == opt # None /\ opt[1] # 0

RECURSIVE SumSeq(_)
SumSeq(s) == IF s = <<>> THEN 0 ELSE Head(s) + SumSeq(Tail(s))

RECURSIVE SeqsOver(_, _)
SeqsOver(S, n) ==
    IF n = 0 THEN {<<>>}
    ELSE LET shorter == SeqsOver(S, n - 1)
         IN shorter \cup {Append(s, x) : s \in {t \in shorter : Len(t) = n - 1}, x \in S}

SeqToSet(s) == {s[i] : i \in 1..Len(s)}

\* the orders in which a set can be enumerated
Orders(S) == {s \in SeqsOver(S, Cardinality(S)) :
                 Len(s) = Cardinality(S) /\ SeqToSet(s) = S}

---------------------------------------------------------------------------
(* The Hybrid Access Layer's backing data (services.hal, consumed)         *)

\* a virtual path: the string is name, followed by "/" when slash
Path(name, slash) == [name |-> name, slash |-> slash]
PathStr(p) == IF p.slash THEN p.name \o "/" ELSE p.name
RootPrefix == Path("", FALSE)

MAX_BATCH_SIZE == 500 * 1024 * 1024

FileItem(name, size, source) ==
    [type |-> "file", path |-> Path(name, FALSE), size |-> size, source |-> source]
DirItem(name, slash) ==
    [type |-> "directory", path |-> Path(name, slash), size |-> None, source |-> Some("s3")]

\* the namespaces a run can have: prefix -> ordered listing
Shapes == {"Empty", "Nested3", "Cap", "One"}

Listing(shape) ==
    CASE shape = "Nested3" ->
           (RootPrefix :> << DirItem("d", FALSE), FileItem("a.txt", Some(100), Some("s3")) >>)
        @@ (Path("d", TRUE) :> << FileItem("d/b.txt", Some(30), Some("db")), DirItem("d/e", TRUE) >>)
        @@ (Path("d/e", TRUE) :> << FileItem("d/e/c.txt", Some(20), None) >>)
      [] shape = "Cap" ->
           (RootPrefix :> << FileItem("cap.bin", Some(MAX_BATCH_SIZE), Some("s3")) >>)
      [] shape = "One" ->
           (RootPrefix :> << FileItem("one.bin", Some(1), Some("local")),
                             FileItem("nosize.log", None, Some("db")),
                             FileItem("zero.txt", Some(0), Some("local")) >>)
      [] OTHER -> (RootPrefix :> << >>)

\* the stored length of each file's content (what load_content returns)
ContentLen(shape, name) ==
    CASE name = "a.txt" -> 100
      [] name = "d/b.txt" -> 30
      [] name = "d/e/c.txt" -> 20
      [] name = "cap.bin" -> 7
      [] name = "one.bin" -> 1
      [] name = "nosize.log" -> 5
      [] OTHER -> 0

StorageMode(shape) ==
    CASE shape = "Nested3" -> "s3"
      [] shape = "Cap" -> "hybrid"
      [] shape = "One" -> "local"
      [] OTHER -> "unknown"

\* the files of a namespace, in the order a depth-first walk loads them
FileOrder(shape) ==
    CASE shape = "Nested3" -> << "d/b.txt", "d/e/c.txt", "a.txt" >>
      [] shape = "Cap" -> << "cap.bin" >>
      [] shape = "One" -> << "one.bin", "nosize.log", "zero.txt" >>
      [] OTHER -> << >>

LoadOutcomes == {"bytes", "none", "raise"}

\* load outcomes per file; nothing is configured behind the first raise, as
\* no handler loads a run's next file once one load has raised
LoadPlans(shape) ==
    LET names == FileOrder(shape)
    IN {f \in [SeqToSet(names) -> LoadOutcomes] :
           \A i \in 1..Len(names) : \A j \in 1..Len(names) :
               (i < j /\ f[names[i]] = "raise") => f[names[j]] = "bytes"}

AllBytes(shape) == [n \in SeqToSet(FileOrder(shape)) |-> "bytes"]

\* what the access layer serves for one run: a namespace, the prefix whose
\* listing raises (None: no listing raises) and the per-file load outcome
HalConfigs ==
    {[shape |-> "Empty", listRaise |-> lr, load |-> AllBytes("Empty")] :
         lr \in {None, Some(RootPrefix)}}
    \cup {[shape |-> "Nested3", listRaise |-> None, load |-> f] : f \in LoadPlans("Nested3")}
    \cup {[shape |-> "Nested3", listRaise |-> Some(p), load |-> AllBytes("Nested3")] :
             p \in DOMAIN Listing("Nested3")}
    \cup {[shape |-> "Cap", listRaise |-> None, load |-> AllBytes("Cap")]}
    \cup {[shape |-> "One", listRaise |-> None, load |-> f] :
             f \in {g \in LoadPlans("One") : g["zero.txt"] = "bytes"}}

\* a run id without a Run row has no storage
NoStorage == [shape |-> "Absent", listRaise |-> None, load |-> AllBytes("Absent")]

\* the namespace of a run: the one of its shape, or the one it carries
ListingOf(cfg) ==
    IF "listing" \in DOMAIN cfg THEN cfg.listing ELSE Listing(cfg.shape)

\* HybridAccessLayer.list_contents(run_id, prefix)
list_contents(h, run_id, prefix) ==
    LET cfg == h[run_id]
    IN IF cfg.shape = "Absent" THEN Raise("ValueError", "Run not found")
       ELSE IF cfg.listRaise = Some(prefix) THEN Raise("RuntimeError", "S3 unavailable")
       ELSE IF prefix \in DOMAIN ListingOf(cfg) THEN Ok(ListingOf(cfg)[prefix])
       ELSE Ok(<< >>)

\* HybridAccessLayer.load_content(run_id, path): bytes are modelled by
\* their length
hal_load_content(h, run_id, path) ==
    LET cfg == h[run_id]
    IN IF cfg.shape = "Absent" THEN Raise("ValueError", "Run not found")
       ELSE IF path.name \notin DOMAIN cfg.load THEN Ok(None)
       ELSE IF cfg.load[path.name] = "raise" THEN Raise("Exception", "read failed")
       ELSE IF cfg.load[path.name] = "none" THEN Ok(None)
       ELSE Ok(Some(ContentLen(cfg.shape, path.name)))

ListCall(run_id, prefix) == [op |-> "list", run |-> run_id, path |-> prefix]
LoadCall(run_id, path) == [op |-> "load", run |-> run_id, path |-> path]

---------------------------------------------------------------------------
(* Content collector *)

RECURSIVE CollectItems(_, _, _, _)
RECURSIVE _collect_all_files_recursive(_, _, _)

\* the for loop over items: acc is [ok, files, calls, exc]
CollectItems(h, run_id, items, acc) ==
    IF items = << >> THEN acc
    ELSE LET item == Head(items) IN
         IF item.type = "file"
         THEN CollectItems(h, run_id, Tail(items),
                  [acc EXCEPT !.files = Append(@,
                      [path |-> item.path,
                       size |-> IF Truthy(item.size) THEN item.size[1] ELSE 0,
                       source |-> IF item.source # None THEN item.source[1] ELSE "unknown"])])
         ELSE IF item.type = "directory"
         THEN LET sub_prefix == IF item.path.slash THEN item.path
                                ELSE Path(item.path.name, TRUE)
                  sub == _collect_all_files_recursive(h, run_id, sub_prefix)
              IN IF ~sub.ok
                 THEN [ok |-> FALSE, files |-> << >>,
                       calls |-> acc.calls \o sub.calls, exc |-> sub.exc]
                 ELSE CollectItems(h, run_id, Tail(items),
                          [acc EXCEPT !.files = @ \o sub.files,
                                      !.calls = @ \o sub.calls])
         ELSE CollectItems(h, run_id, Tail(items), acc)

_collect_all_files_recursive(h, run_id, prefix) ==
    LET items == list_contents(h, run_id, prefix)
        call == << ListCall(run_id, prefix) >>
    IN IF ~items.ok
       THEN [ok |-> FALSE, files |-> << >>, calls |-> call, exc |-> items.exc]
       ELSE CollectItems(h, run_id, items.val,
                [ok |-> TRUE, files |-> << >>, calls |-> call, exc |-> items.exc])

---------------------------------------------------------------------------
(* The relational store and the rows a snapshot copies *)

ProcessIds == 1..MaxProcessId
RowIds == 1..MaxRowId

\* the rows of the four tables that hang off runs; nothing makes a row's
\* run_id or process_id point at an existing row
ProcessRows == [id : ProcessIds, run_id : RunIds]
OperationRows == [id : RowIds, process_id : ProcessIds]
PortRows == [id : RowIds, process_id : ProcessIds]
EdgeRows == [id : RowIds, run_id : RunIds]

\* id is the primary key of each table
KeyedById(rows) == \A a \in rows : \A b \in rows : a.id = b.id => a = b

Stores ==
    {[processes |-> ps, operations |-> os, ports |-> pts, edges |-> es] :
        ps \in {x \in SUBSET ProcessRows : KeyedById(x)},
        os \in {x \in SUBSET OperationRows : KeyedById(x)},
        pts \in {x \in SUBSET PortRows : KeyedById(x)},
        es \in {x \in SUBSET EdgeRows : KeyedById(x)}}

EmptyStore == [processes |-> {}, operations |-> {}, ports |-> {}, edges |-> {}]

\* db.query(Process).filter(Process.run_id == run_id).all()
RunProcesses(db, run_id) == {p \in db.processes : p.run_id = run_id}

\* db.query(Operation).filter(Operation.process_id.in_(process_ids)).all()
AllOperations(db, process_ids) == db.operations
ProcessOperations(db, process_ids) ==
    {op \in db.operations : op.process_id \in process_ids}

\* db.query(Port).filter(Port.process_id.in_(process_ids)).all()
ProcessPorts(db, process_ids) == {port \in db.ports : port.process_id \in process_ids}

\* db.query(Edge).filter(Edge.run_id == run_id).all()
AllEdges(db, run_id) == db.edges
RunEdges(db, run_id) == {e \in db.edges : e.run_id = run_id}

\* the rows _generate_metadata_dump inserts into the five tables
DumpTables(db, run_id) ==
    LET processes == RunProcesses(db, run_id)
        process_ids == {p.id : p \in processes}
    IN [runs |-> {[id |-> run_id]},
        processes |-> processes,
        operations |-> IF process_ids # {} THEN ProcessOperations(db, process_ids) ELSE {},
        ports |-> IF process_ids # {} THEN ProcessPorts(db, process_ids) ELSE {},
        edges |-> RunEdges(db, run_id)]

\* the rows download_sql_dump inserts into the five tables
SqlDumpTables(db, run_id) ==
    LET processes == RunProcesses(db, run_id)
        process_ids == {p.id : p \in processes}
    IN [runs |-> {[id |-> run_id]},
        processes |-> processes,
        operations |-> IF process_ids # {} THEN ProcessOperations(db, process_ids) ELSE {},
        ports |-> IF process_ids # {} THEN ProcessPorts(db, process_ids) ELSE {},
        edges |-> RunEdges(db, run_id)]

---------------------------------------------------------------------------
(* Temporary files and the metadata snapshot *)

\* a file of the temporary directory: <prefix><random part>.db
TempFile(prefix, n) == [prefix |-> prefix, rand |-> n]
BatchTempPrefix == "tmp"
SingleTempPrefix(run_id) == "run_" \o ToString(run_id) \o "_"

\* a generator that opens whatever name it draws, used or not
NamedTemporaryFileReused(temps, prefix, n) == Ok(TempFile(prefix, n))

\* tempfile.NamedTemporaryFile(delete=False, ...): creates a file under a
\* name that does not exist yet (n is the name drawn), or raises when the
\* generator finds no unused name
NamedTemporaryFile(temps, prefix, n) ==
    IF TempFile(prefix, n) \in temps
    THEN Raise("FileExistsError", "No usable temporary file name found")
    ELSE Ok(TempFile(prefix, n))

\* the steps of snapshot generation at which an exception can be raised:
\* creating the temp file, and inside the try block opening the SQLite
\* file, copying the rows, reading the file back
DumpFaults == {"none", "tempfile", "connect", "insert", "read"}

\* the SQLite file of one run, as bytes (never empty: five tables)
SnapshotBytes(run_id) ==
    [format |-> "sqlite3", run |-> run_id, tables |-> DumpTables(store, run_id)]

\* the finally clause: if os.path.exists(temp_path): os.unlink(temp_path)
DumpFinallyKeep(temps, f) == temps
DumpFinally(temps, f) == IF f \in temps THEN temps \ {f} ELSE temps

\* _generate_metadata_dump(db, run_id): [ok, val, exc, temps, created]
_generate_metadata_dump(runs, run_id, fault, n, temps) ==
    IF run_id \notin runs
    THEN Ok(None) @@ [temps |-> temps, created |-> {}]
    ELSE LET made == IF fault = "tempfile" THEN Raise("OSError", "No space left on device")
                     ELSE NamedTemporaryFile(temps, BatchTempPrefix, n)
         IN IF ~made.ok
            THEN made @@ [temps |-> temps, created |-> {}]
            ELSE LET temp_path == made.val
                     onDisk == temps \cup {temp_path}
                     body == CASE fault = "connect" ->
                                      Raise("OperationalError", "unable to open database file")
                               [] fault = "insert" ->
                                      Raise("SQLAlchemyError", "query failed")
                               [] fault = "read" -> Raise("OSError", "read error")
                               [] OTHER -> Ok(Some(SnapshotBytes(run_id)))
                 IN body @@ [temps |-> DumpFinally(onDisk, temp_path),
                             created |-> {temp_path}]

---------------------------------------------------------------------------
(* Batch archive builder *)

RunPrefix(run_id) == "run_" \o ToString(run_id) \o "/"
Member(dir, base) == [dir |-> dir, base |-> base]
ManifestMember == Member("", "manifest.json")

RunRow(h, run_id) == [id |-> run_id, storage_mode |-> StorageMode(h[run_id].shape)]

\* BatchDownloadV2Request: run_ids has min_length=1, max_length=100
MaxRunIdsLength == 100
ValidRequestAny(run_ids) == TRUE
ValidRequest(run_ids) == Len(run_ids) >= 1 /\ Len(run_ids) <= MaxRunIdsLength

\* db.query(Run).filter(Run.id.in_(run_ids)).all(): the rows, in an order
\* the query does not fix (order is the order the store returns them in)
ResolvedIdsUnfiltered(runs, run_ids) == SeqToSet(run_ids)
ResolvedIds(runs, run_ids) == SeqToSet(run_ids) \cap runs
QueryOrdersPerOccurrence(runs, run_ids) ==
    {SelectSeq(run_ids, LAMBDA r : r \in runs)}
QueryOrders(runs, run_ids) == Orders(ResolvedIds(runs, run_ids))

\* if not runs: raise HTTPException(status_code=404, detail="No runs found")
NoRunsFoundNever(rows) == FALSE
NoRunsFound(rows) == rows = << >>

\* the loop over files: load each, write the non-empty ones
\* acc is [ok, exc, zip, count, size, calls]
RECURSIVE LoadFiles(_, _, _, _)
LoadFiles(h, run_id, files, acc) ==
    IF files = << >> THEN acc
    ELSE LET file_path == Head(files).path
             content == hal_load_content(h, run_id, file_path)
             called == [acc EXCEPT !.calls = Append(@, LoadCall(run_id, file_path))]
         IN IF ~content.ok
            THEN [called EXCEPT !.ok = FALSE, !.exc = content.exc]
            ELSE IF Truthy(content.val)
            THEN LoadFiles(h, run_id, Tail(files),
                     [called EXCEPT
                         !.zip = Append(@, Member(RunPrefix(run_id), PathStr(file_path))),
                         !.count = @ + 1,
                         !.size = @ + content.val[1]])
            ELSE LoadFiles(h, run_id, Tail(files), called)

EmptyManifest == [runs |-> << >>, total_files |-> 0, total_size |-> 0, errors |-> << >>]

\* the except clause of the per-run try: the run goes to manifest.errors
RunFailedAtomic(st, run_id, exc) ==
    [st EXCEPT !.zip = SelectSeq(@, LAMBDA m : m.dir # "run_" \o ToString(run_id) \o "/"),
               !.manifest.errors = Append(@, [run_id |-> run_id, error |-> exc.msg])]
RunFailedSilent(st, run_id, exc) == st
RunFailedAlsoListed(st, run_id, exc) ==
    [st EXCEPT !.manifest.errors = Append(@, [run_id |-> run_id, error |-> exc.msg]),
               !.manifest.runs = Append(@, [run_id |-> run_id, storage_mode |-> "unknown",
                                            file_count |-> 0, total_size |-> 0])]
RunFailed(st, run_id, exc) ==
    [st EXCEPT !.manifest.errors = Append(@, [run_id |-> run_id, error |-> exc.msg])]

\* the inner try/except around the snapshot: an exception is logged as a
\* warning and goes no further
BestEffortPropagate(dump) == dump
BestEffort(dump) == IF dump.ok THEN dump ELSE [dump EXCEPT !.ok = TRUE, !.val = None]

\* the end of the per-run try: the snapshot, when there is one, is written,
\* the run is appended to manifest.runs and the totals are updated
\* written is [zip, manifest, calls, temps, created, dumps]; dumps are the
\* bytes of the snapshot members, in the order they were written
RecordRun(h, written, run_id, loaded, dump) ==
    LET dumped == [written EXCEPT
                      !.temps = dump.temps,
                      !.created = @ \cup dump.created,
                      !.zip = IF dump.ok /\ dump.val # None
                              THEN Append(@, Member(RunPrefix(run_id), "_metadata.db"))
                              ELSE @,
                      !.dumps = IF dump.ok /\ dump.val # None
                                THEN Append(@, dump.val[1])
                                ELSE @]
    IN IF ~dump.ok THEN RunFailed(dumped, run_id, dump.exc)
       ELSE [dumped EXCEPT
                !.manifest.runs = Append(@, [run_id |-> run_id,
                                             storage_mode |-> RunRow(h, run_id).storage_mode,
                                             file_count |-> loaded.count,
                                             total_size |-> loaded.size]),
                !.manifest.total_files = @ + loaded.count,
                !.manifest.total_size = @ + loaded.size]

\* after the loop over files: what it wrote is in the archive whether or not
\* it ran to its end; the snapshot is generated when it did
WriteSnapshot(runs, h, st, run_id, fault, n, loaded) ==
    IF ~loaded.ok
    THEN RunFailed([st EXCEPT !.zip = loaded.zip, !.calls = loaded.calls],
                   run_id, loaded.exc)
    ELSE RecordRun(h, [st EXCEPT !.zip = loaded.zip, !.calls = loaded.calls],
                   run_id, loaded,
                   BestEffort(_generate_metadata_dump(runs, run_id, fault, n, st.temps)))

\* after the collection: the files collected are loaded and written
WriteFiles(runs, h, st, run_id, fault, n, files) ==
    IF ~files.ok
    THEN RunFailed([st EXCEPT !.calls = @ \o files.calls], run_id, files.exc)
    ELSE WriteSnapshot(runs, h, st, run_id, fault, n,
             LoadFiles(h, run_id, files.files,
                 [ok |-> TRUE, exc |-> files.exc, zip |-> st.zip,
                  count |-> 0, size |-> 0, calls |-> st.calls \o files.calls]))

\* one iteration of "for run in runs" of batch_download_v2
\* st is [zip, manifest, calls, temps, created]
DownloadRun(runs, h, st, run_id, fault, n) ==
    WriteFiles(runs, h, st, run_id, fault, n,
               _collect_all_files_recursive(h, run_id, RootPrefix))

\* for run in runs
RECURSIVE DownloadRunsAbort(_, _, _, _, _, _)
DownloadRunsAbort(runs, h, st, order, faults, n) ==
    IF order = << >> \/ st.manifest.errors # << >> THEN st
    ELSE DownloadRunsAbort(runs, h,
             DownloadRun(runs, h, st, Head(order), faults[Head(order)], n),
             Tail(order), faults, n)

RECURSIVE DownloadRuns(_, _, _, _, _, _)
DownloadRuns(runs, h, st, order, faults, n) ==
    IF order = << >> THEN st
    ELSE DownloadRuns(runs, h,
             DownloadRun(runs, h, st, Head(order), faults[Head(order)], n),
             Tail(order), faults, n)

NoResponse == [status |-> 0, detail |-> "", zip |-> << >>, manifest |-> EmptyManifest,
               estimate |-> None, file |-> None, calls |-> << >>, created |-> {},
               dumps |-> << >>, hal_out |-> None, body |-> None]

\* manifest.json is written last and the archive is returned
ZipResponseManifestFirst(st) ==
    [resp |-> [NoResponse EXCEPT !.status = 200,
                                 !.zip = << ManifestMember >> \o st.zip,
                                 !.manifest = st.manifest,
                                 !.calls = st.calls,
                                 !.created = st.created,
                                 !.dumps = st.dumps],
     temps |-> st.temps]
ZipResponse(st) ==
    [resp |-> [NoResponse EXCEPT !.status = 200,
                                 !.zip = Append(st.zip, ManifestMember),
                                 !.manifest = st.manifest,
                                 !.calls = st.calls,
                                 !.created = st.created,
                                 !.dumps = st.dumps],
     temps |-> st.temps]

\* batch_download_v2(request): [response, temps]
batch_download_v2(runs, h, temps, run_ids, order, faults, n) ==
    IF ~ValidRequest(run_ids)
    THEN [resp |-> [NoResponse EXCEPT !.status = 422, !.detail = "validation error"],
          temps |-> temps]
    ELSE IF run_ids = << >>
    THEN [resp |-> [NoResponse EXCEPT !.status = 400, !.detail = "run_ids is required"],
          temps |-> temps]
    ELSE IF NoRunsFound(order)
    THEN [resp |-> [NoResponse EXCEPT !.status = 404, !.detail = "No runs found"],
          temps |-> temps]
    ELSE ZipResponse(DownloadRuns(runs, h,
                         [zip |-> << >>, manifest |-> EmptyManifest, calls |-> << >>,
                          temps |-> temps, created |-> {}, dumps |-> << >>],
                         order, faults, n))

---------------------------------------------------------------------------
(* Batch metadata dump *)

EmptyDumpManifest == [type |-> "metadata_dumps", runs |-> << >>, errors |-> << >>]

DumpMember(run_id) == Member("", "run_" \o ToString(run_id) \o "_dump.db")

\* one iteration of "for run in runs" of batch_dump_metadata
\* st is [zip, manifest, temps, created]
DumpRun(runs, h, st, run_id, fault, n) ==
    LET dump == _generate_metadata_dump(runs, run_id, fault, n, st.temps)
        done == [st EXCEPT !.temps = dump.temps, !.created = @ \cup dump.created]
    IN IF ~dump.ok THEN RunFailed(done, run_id, dump.exc)
       ELSE IF dump.val # None
       THEN [done EXCEPT
                !.zip = Append(@, DumpMember(run_id)),
                !.dumps = Append(@, dump.val[1]),
                !.manifest.runs = Append(@, [run_id |-> run_id,
                                             storage_mode |-> RunRow(h, run_id).storage_mode,
                                             dump_size |-> [len_of |-> dump.val[1]]])]
       ELSE done

RECURSIVE DumpRuns(_, _, _, _, _, _)
DumpRuns(runs, h, st, order, faults, n) ==
    IF order = << >> THEN st
    ELSE DumpRuns(runs, h, DumpRun(runs, h, st, Head(order), faults[Head(order)], n),
                  Tail(order), faults, n)

\* batch_dump_metadata(request): [response, temps]
batch_dump_metadata(runs, h, temps, run_ids, order, faults, n) ==
    IF ~ValidRequest(run_ids)
    THEN [resp |-> [NoResponse EXCEPT !.status = 422, !.detail = "validation error"],
          temps |-> temps]
    ELSE IF run_ids = << >>
    THEN [resp |-> [NoResponse EXCEPT !.status = 400, !.detail = "run_ids is required"],
          temps |-> temps]
    ELSE IF NoRunsFound(order)
    THEN [resp |-> [NoResponse EXCEPT !.status = 404, !.detail = "No runs found"],
          temps |-> temps]
    ELSE LET st == DumpRuns(runs, h,
                       [zip |-> << >>, manifest |-> EmptyDumpManifest,
                        temps |-> temps, created |-> {}, dumps |-> << >>],
                       order, faults, n)
         IN [resp |-> [NoResponse EXCEPT !.status = 200,
                                         !.zip = Append(st.zip, ManifestMember),
                                         !.manifest = st.manifest,
                                         !.created = st.created,
                                         !.dumps = st.dumps],
             temps |-> st.temps]

---------------------------------------------------------------------------
(* Size estimator *)

Estimate(run_count, total_files, total_size, can_download, message, runs_detail) ==
    [run_count |-> run_count, total_files |-> total_files,
     estimated_size_bytes |-> total_size, can_download |-> can_download,
     message |-> message, runs_detail |-> runs_detail]

SizesOf(files) == [i \in 1..Len(files) |-> files[i].size]

\* one iteration of "for run in runs" of estimate_batch_download_v2
\* st is [total_size, total_files, runs_detail, calls]
EstimateRun(h, st, run_id) ==
    LET files == _collect_all_files_recursive(h, run_id, RootPrefix)
        listed == [st EXCEPT !.calls = @ \o files.calls]
    IN IF ~files.ok
       THEN [listed EXCEPT !.runs_detail =
                Append(@, [run_id |-> run_id, error |-> files.exc.msg])]
       ELSE LET run_size == SumSeq(SizesOf(files.files))
                run_files == Len(files.files)
            IN [listed EXCEPT
                   !.total_size = @ + run_size,
                   !.total_files = @ + run_files,
                   !.runs_detail = Append(@, [run_id |-> run_id,
                                              storage_mode |-> RunRow(h, run_id).storage_mode,
                                              file_count |-> run_files,
                                              estimated_size |-> run_size])]

RECURSIVE EstimateRunsAbort(_, _, _)
EstimateRunsAbort(h, st, order) ==
    IF order = << >> THEN st
    ELSE IF st.runs_detail # << >>
            /\ "error" \in DOMAIN st.runs_detail[Len(st.runs_detail)]
    THEN st
    ELSE EstimateRunsAbort(h, EstimateRun(h, st, Head(order)), Tail(order))

EstimateRunsFirst(h, st, order) ==
    IF order = << >> THEN st ELSE EstimateRun(h, st, Head(order))

RECURSIVE EstimateRuns(_, _, _)
EstimateRuns(h, st, order) ==
    IF order = << >> THEN st
    ELSE EstimateRuns(h, EstimateRun(h, st, Head(order)), Tail(order))

\* can_download = total_size <= MAX_BATCH_SIZE
CanDownloadStrict(total_size) == total_size < MAX_BATCH_SIZE
CanDownload(total_size) == total_size <= MAX_BATCH_SIZE

ExceedsMessageRoundedUp(total_size) ==
    "Estimated size (" \o ToString((total_size + (1024 * 1024 - 1)) \div (1024 * 1024))
        \o "MB) exceeds limit (500MB)"
ExceedsMessage(total_size) ==
    "Estimated size (" \o ToString(total_size \div (1024 * 1024))
        \o "MB) exceeds limit (500MB)"

\* if not runs: return BatchDownloadV2Estimate(... message="No runs found")
NoRunsEstimateNotFound == [NoResponse EXCEPT !.status = 404, !.detail = "No runs found"]
NoRunsEstimate ==
    [NoResponse EXCEPT !.status = 200, !.estimate =
        Some(Estimate(0, 0, 0, FALSE, Some("No runs found"), << >>))]

\* estimate_batch_download_v2(request): the response
estimate_batch_download_v2(runs, h, run_ids, order) ==
    IF ~ValidRequest(run_ids)
    THEN [NoResponse EXCEPT !.status = 422, !.detail = "validation error"]
    ELSE IF run_ids = << >>
    THEN [NoResponse EXCEPT !.status = 200, !.estimate =
             Some(Estimate(0, 0, 0, FALSE, Some("run_ids is required"), << >>))]
    ELSE IF order = << >>
    THEN NoRunsEstimate
    ELSE LET st == EstimateRuns(h, [total_size |-> 0, total_files |-> 0,
                                    runs_detail |-> << >>, calls |-> << >>], order)
             can_download == CanDownload(st.total_size)
             message == IF can_download THEN None ELSE Some(ExceedsMessage(st.total_size))
         IN [NoResponse EXCEPT
                !.status = 200,
                !.calls = st.calls,
                !.estimate = Some(Estimate(Len(order), st.total_files, st.total_size,
                                           can_download, message, st.runs_detail))]

---------------------------------------------------------------------------
(* Single-run SQLite dump *)

SingleDumpFaults == {"none", "tempfile", "connect", "insert", "getsize"}

\* the except clause: if 'temp_path' in locals() and os.path.exists(temp_path):
\* os.unlink(temp_path); temp_path is None while the name is not bound
SingleDumpExcept(temps, temp_path) ==
    IF temp_path # None /\ temp_path[1] \in temps THEN temps \ {temp_path[1]} ELSE temps

\* what the successful path does with the temp file before returning the
\* FileResponse (background=None: nothing is scheduled)
SingleDumpReturnUnlink(temps, temp_path) == temps \ {temp_path}
SingleDumpReturn(temps, temp_path) == temps

\* the SQLite file download_sql_dump serves
SqlDumpBytes(run_id) ==
    [format |-> "sqlite3", run |-> run_id, tables |-> SqlDumpTables(store, run_id)]

\* download_sql_dump(run_id): [response, temps]
download_sql_dump(runs, run_id, fault, n, temps) ==
    IF run_id \notin runs
    THEN [resp |-> [NoResponse EXCEPT !.status = 404, !.detail = "Run not found"],
          temps |-> temps]
    ELSE LET made == IF fault = "tempfile" THEN Raise("OSError", "No space left on device")
                     ELSE NamedTemporaryFile(temps, SingleTempPrefix(run_id), n)
             failed == [NoResponse EXCEPT !.status = 500,
                                          !.detail = "Failed to create SQL dump"]
         IN IF ~made.ok
            THEN [resp |-> failed, temps |-> SingleDumpExcept(temps, None)]
            ELSE LET temp_path == made.val
                     onDisk == temps \cup {temp_path}
                 IN IF fault \in {"connect", "insert", "getsize"}
                    THEN [resp |-> [failed EXCEPT !.created = {temp_path}],
                          temps |-> SingleDumpExcept(onDisk, Some(temp_path))]
                    ELSE [resp |-> [NoResponse EXCEPT !.status = 200,
                                                      !.file = Some(temp_path),
                                                      !.created = {temp_path},
                                                      !.dumps = << SqlDumpBytes(run_id) >>],
                          temps |-> SingleDumpReturn(onDisk, temp_path)]

---------------------------------------------------------------------------
(* Bytes, UTF-8 text and base64 *)

\* the byte values previewed contents are made of: ASCII "A", the lead
\* bytes of two- and three-byte sequences, continuation bytes, an overlong
\* lead, the lead of the surrogate range and a byte no sequence contains
PreviewBytes == {65, 192, 195, 226, 237, 130, 169, 255}

IsContinuation(b) == b >= 128 /\ b <= 191

\* bytes.decode('utf-8'): the code points, or UnicodeDecodeError
RECURSIVE Utf8Decode(_, _)
Utf8Decode(bytes, text) ==
    LET n == Len(bytes)
        b1 == bytes[1]
        bad == Raise("UnicodeDecodeError", "invalid utf-8")
    IN IF n = 0 THEN Ok(text)
       ELSE IF b1 <= 127
       THEN Utf8Decode(Tail(bytes), Append(text, b1))
       ELSE IF b1 >= 194 /\ b1 <= 223
       THEN IF n >= 2 /\ IsContinuation(bytes[2])
            THEN Utf8Decode(SubSeq(bytes, 3, n),
                            Append(text, (b1 - 192) * 64 + (bytes[2] - 128)))
            ELSE bad
       ELSE IF b1 >= 224 /\ b1 <= 239
       THEN IF /\ n >= 3
               /\ IsContinuation(bytes[2])
               /\ IsContinuation(bytes[3])
               /\ (b1 = 224 => bytes[2] >= 160)
               /\ (b1 = 237 => bytes[2] <= 159)
            THEN Utf8Decode(SubSeq(bytes, 4, n),
                            Append(text, (b1 - 224) * 4096 + (bytes[2] - 128) * 64
                                             + (bytes[3] - 128)))
            ELSE bad
       ELSE IF b1 >= 240 /\ b1 <= 244
       THEN IF /\ n >= 4
               /\ IsContinuation(bytes[2])
               /\ IsContinuation(bytes[3])
               /\ IsContinuation(bytes[4])
               /\ (b1 = 240 => bytes[2] >= 144)
               /\ (b1 = 244 => bytes[2] <= 143)
            THEN Utf8Decode(SubSeq(bytes, 5, n),
                            Append(text, (b1 - 240) * 262144 + (bytes[2] - 128) * 4096
                                             + (bytes[3] - 128) * 64 + (bytes[4] - 128)))
            ELSE bad
       ELSE bad

\* the base64 alphabet and the padding character
B64Alphabet ==
    << "A", "B", "C", "D", "E", "F", "G", "H", "I", "J", "K", "L", "M",
       "N", "O", "P", "Q", "R", "S", "T", "U", "V", "W", "X", "Y", "Z",
       "a", "b", "c", "d", "e", "f", "g", "h", "i", "j", "k", "l", "m",
       "n", "o", "p", "q", "r", "s", "t", "u", "v", "w", "x", "y", "z",
       "0", "1", "2", "3", "4", "5", "6", "7", "8", "9", "+", "/" >>
B64Pad == "="
B64Char(sextet) == B64Alphabet[sextet + 1]

\* base64.b64encode(content).decode(): the characters of the encoding
RECURSIVE b64encode(_)
b64encode(bytes) ==
    LET n == Len(bytes) IN
    IF n = 0 THEN << >>
    ELSE IF n = 1
    THEN << B64Char(bytes[1] \div 4), B64Char((bytes[1] % 4) * 16), B64Pad, B64Pad >>
    ELSE IF n = 2
    THEN << B64Char(bytes[1] \div 4),
            B64Char((bytes[1] % 4) * 16 + bytes[2] \div 16),
            B64Char((bytes[2] % 16) * 4), B64Pad >>
    ELSE << B64Char(bytes[1] \div 4),
            B64Char((bytes[1] % 4) * 16 + bytes[2] \div 16),
            B64Char((bytes[2] % 16) * 4 + bytes[3] \div 64),
            B64Char(bytes[3] % 64) >> \o b64encode(SubSeq(bytes, 4, n))

---------------------------------------------------------------------------
(* Single-run passthrough *)

\* how a call of the Access Layer can fail: the run or path is missing
\* (ValueError), the backend is unavailable (RuntimeError), anything else
HalFailures ==
    {Raise("ValueError", "Path not found"),
     Raise("RuntimeError", "S3 unavailable"),
     Raise("Exception", "unexpected")}

\* the outcomes of one Access Layer call for run_id, results being what it
\* can return
HalOutcomes(runs, run_id, results) ==
    IF run_id \notin runs THEN {Raise("ValueError", "Run not found")}
    ELSE HalFailures \cup {Ok(r) : r \in results}

InternalError(out) ==
    [NoResponse EXCEPT !.status = 500, !.detail = "Internal server error",
                       !.hal_out = Some(out)]
HttpError(out, status) ==
    [NoResponse EXCEPT !.status = status, !.detail = out.exc.msg, !.hal_out = Some(out)]
Success(out, body) ==
    [NoResponse EXCEPT !.status = 200, !.body = Some(body), !.hal_out = Some(out)]

\* list_run_contents(run_id, prefix): out is what hal.list_contents did
list_run_contents(run_id, prefix, out) ==
    IF out.ok
    THEN Success(out, [run_id |-> run_id, prefix |-> prefix, items |-> out.val])
    ELSE IF out.exc.type = "ValueError" THEN HttpError(out, 404)
    ELSE IF out.exc.type = "RuntimeError" THEN HttpError(out, 503)
    ELSE InternalError(out)

\* the preview of present content: text when it decodes, else base64
PreviewText(content, text) ==
    [content |-> IF text.ok THEN text.val ELSE << >>, encoding |-> "utf-8"]
Preview(content, text) ==
    IF text.ok THEN [content |-> text.val, encoding |-> "utf-8"]
    ELSE [content |-> b64encode(content), encoding |-> "base64"]

\* load_content(run_id, path): out is what hal.load_content did
load_content(run_id, path, out) ==
    IF out.ok
    THEN IF out.val = None
         THEN [NoResponse EXCEPT !.status = 404, !.detail = "Content not found",
                                 !.hal_out = Some(out)]
         ELSE Success(out, Preview(out.val[1], Utf8Decode(out.val[1], << >>)))
    ELSE IF out.exc.type = "ValueError" THEN HttpError(out, 404)
    ELSE InternalError(out)

\* get_download_url(run_id, path): out is what hal.get_download_url did
get_download_url(run_id, path, out) ==
    IF out.ok THEN Success(out, [url |-> out.val[1], run_id |-> run_id, path |-> path])
    ELSE IF out.exc.type = "ValueError" THEN HttpError(out, 404)
    ELSE InternalError(out)

\* get_storage_info(run_id): out is what hal.get_storage_info did
get_storage_info(run_id, out) ==
    IF out.ok THEN Success(out, out.val[1])
    ELSE IF out.exc.type = "ValueError" THEN HttpError(out, 404)
    ELSE InternalError(out)

---------------------------------------------------------------------------
(* The parts of the server the export requests do not touch *)

NoWalk == [status |-> "idle", run |-> 0, prefix |-> [name |-> "", slash |-> FALSE],
           stack |-> << >>, result |-> << >>, calls |-> << >>,
           exc |-> [type |-> "", msg |-> ""]]
NoImport ==
    [autoflush |-> TRUE, yaml |-> [types |-> << >>, defs |-> << >>, connections |-> << >>],
     ports |-> {}, conns |-> {}, reports |-> << >>]
MaxWorkers == 2      \* requests the threadpool serves at the same time
Workers == 1..MaxWorkers
NoExport ==
    [kind |-> "none", pc |-> "idle", serial |-> 0, run_id |-> 0, runs |-> 0,
     path |-> None, got |-> {}, status |-> 0]
NoExports ==
    [reqs |-> [w \in Workers |-> NoExport], started |-> 0, written |-> {}]
NoPoRequest ==
    [op |-> "none", pc |-> "idle", process_id |-> 0, operation_id |-> 0, id |-> 0,
     status |-> 0, detail |-> "", existed |-> FALSE, changed |-> FALSE]
NoProcOps ==
    [unique |-> FALSE, rows |-> {}, nextId |-> 1, started |-> 0,
     reqs |-> [w \in Workers |-> NoPoRequest]]
NoSummary ==
    [action |-> None, file_status |-> None, table_status |-> None,
     migrations_run |-> FALSE, success |-> FALSE]
NoBoot ==
    [pc |-> "idle", file |-> "missing", tables |-> {}, declared |-> {},
     summary |-> NoSummary, logged |-> FALSE]

AtRest ==
    /\ walk = NoWalk
    /\ imp = NoImport
    /\ exports = NoExports
    /\ procOps = NoProcOps
    /\ boot = NoBoot

---------------------------------------------------------------------------
(* Requests *)

RunIdLists == SeqsOver(RunIds, MaxReqLen)

\* the faults the batch requests of Spec draw, per resolved run
BatchFaults == {"none", "insert"}

Request(op, run_ids, order, faults) ==
    [op |-> op, run_ids |-> run_ids, order |-> order, faults |-> faults]

NoFaults == [r \in RunIds |-> "none"]
NoRequest == Request("none", << >>, << >>, NoFaults)

\* only the runs a request resolves can draw a fault
FaultPlans(F, ids) == {f \in [RunIds -> F] : \A r \in RunIds \ ids : f[r] = "none"}

HalStates(Configs) ==
    {h \in [RunIds -> Configs \cup {NoStorage}] :
        \A r \in RunIds : (h[r] = NoStorage) <=> (r \notin dbRuns)}

Init ==
    /\ dbRuns \in SUBSET RunIds
    /\ store = EmptyStore
    /\ hal \in HalStates(HalConfigs)
    /\ tempFiles = {}
    /\ req = NoRequest
    /\ resp = NoResponse
    /\ dumpOk = 0
    /\ lastEstimate = None
    /\ AtRest

\* requests are served one after the other
Idle == req.op = "none"

BatchDownload(F) ==
    /\ Idle
    /\ \E run_ids \in RunIdLists :
       \E order \in QueryOrders(dbRuns, run_ids) :
       \E faults \in FaultPlans(F, ResolvedIds(dbRuns, run_ids)) :
       \E n \in TempNames :
          LET out == batch_download_v2(dbRuns, hal, tempFiles, run_ids, order, faults, n)
          IN /\ req' = Request("batch_download", run_ids, order, faults)
             /\ resp' = out.resp
             /\ tempFiles' = out.temps
             /\ UNCHANGED <<walk, imp, exports, procOps, boot, lastEstimate, dbRuns, store, hal, dumpOk>>

BatchDump(F) ==
    /\ Idle
    /\ \E run_ids \in RunIdLists :
       \E order \in QueryOrders(dbRuns, run_ids) :
       \E faults \in FaultPlans(F, ResolvedIds(dbRuns, run_ids)) :
       \E n \in TempNames :
          LET out == batch_dump_metadata(dbRuns, hal, tempFiles, run_ids, order, faults, n)
          IN /\ req' = Request("batch_dump", run_ids, order, faults)
             /\ resp' = out.resp
             /\ tempFiles' = out.temps
             /\ UNCHANGED <<walk, imp, exports, procOps, boot, lastEstimate, dbRuns, store, hal, dumpOk>>

EstimateBatch ==
    /\ Idle
    /\ \E run_ids \in RunIdLists :
       \E order \in QueryOrders(dbRuns, run_ids) :
          /\ req' = Request("estimate", run_ids, order, NoFaults)
          /\ resp' = estimate_batch_download_v2(dbRuns, hal, run_ids, order)
          /\ UNCHANGED <<walk, imp, exports, procOps, boot, lastEstimate, dbRuns, store, hal, tempFiles, dumpOk>>

SingleDump ==
    /\ Idle
    /\ \E run_id \in RunIds :
       \E fault \in SingleDumpFaults :
       \E n \in TempNames :
          LET out == download_sql_dump(dbRuns, run_id, fault, n, tempFiles)
          IN /\ req' = Request("single_dump", << run_id >>, << >>,
                               [NoFaults EXCEPT ![run_id] = fault])
             /\ resp' = out.resp
             /\ tempFiles' = out.temps
             /\ dumpOk' = IF out.resp.status = 200 THEN dumpOk + 1 ELSE dumpOk
             /\ UNCHANGED <<walk, imp, exports, procOps, boot, lastEstimate, dbRuns, store, hal>>

\* what the Access Layer can return to the passthrough handlers
Contents == {None} \cup {Some(b) : b \in SeqsOver(PreviewBytes, MaxContentLen)}
PreviewPath == Path("one.bin", FALSE)
DownloadUrls == {Some("https://s3.example/one.bin?signature")}
StorageInfos(h, run_id) == {Some([mode |-> StorageMode(h[run_id].shape)])}

ListContents ==
    /\ Idle
    /\ \E run_id \in RunIds :
       \E out \in HalOutcomes(dbRuns, run_id,
                              {list_contents(hal, run_id, RootPrefix).val}) :
          /\ req' = Request("list", << run_id >>, << >>, NoFaults)
          /\ resp' = list_run_contents(run_id, RootPrefix, out)
          /\ UNCHANGED <<walk, imp, exports, procOps, boot, lastEstimate, dbRuns, store, hal, tempFiles, dumpOk>>

LoadContent ==
    /\ Idle
    /\ \E run_id \in RunIds :
       \E out \in HalOutcomes(dbRuns, run_id, Contents) :
          /\ req' = Request("content", << run_id >>, << >>, NoFaults)
          /\ resp' = load_content(run_id, PreviewPath, out)
          /\ UNCHANGED <<walk, imp, exports, procOps, boot, lastEstimate, dbRuns, store, hal, tempFiles, dumpOk>>

GetDownloadUrl ==
    /\ Idle
    /\ \E run_id \in RunIds :
       \E out \in HalOutcomes(dbRuns, run_id, DownloadUrls) :
          /\ req' = Request("download_url", << run_id >>, << >>, NoFaults)
          /\ resp' = get_download_url(run_id, PreviewPath, out)
          /\ UNCHANGED <<walk, imp, exports, procOps, boot, lastEstimate, dbRuns, store, hal, tempFiles, dumpOk>>

GetStorageInfo ==
    /\ Idle
    /\ \E run_id \in RunIds :
       \E out \in HalOutcomes(dbRuns, run_id, StorageInfos(hal, run_id)) :
          /\ req' = Request("info", << run_id >>, << >>, NoFaults)
          /\ resp' = get_storage_info(run_id, out)
          /\ UNCHANGED <<walk, imp, exports, procOps, boot, lastEstimate, dbRuns, store, hal, tempFiles, dumpOk>>

\* the response is sent; what the handler built is discarded
Respond ==
    /\ ~Idle
    /\ req' = NoRequest
    /\ resp' = NoResponse
    /\ UNCHANGED <<walk, imp, exports, procOps, boot, lastEstimate, dbRuns, store, hal, tempFiles, dumpOk>>

\* the response is sent to a client that keeps the estimate it receives
RespondKeep ==
    /\ ~Idle
    /\ req' = NoRequest
    /\ resp' = NoResponse
    /\ lastEstimate' = IF req.op = "estimate" /\ resp.estimate # None
                       THEN Some([run_ids |-> req.run_ids, estimate |-> resp.estimate[1]])
                       ELSE lastEstimate
    /\ UNCHANGED <<walk, imp, exports, procOps, boot, dbRuns, store, hal, tempFiles, dumpOk>>

Next ==
    \/ BatchDownload(BatchFaults)
    \/ BatchDump(BatchFaults)
    \/ EstimateBatch
    \/ Respond

Spec == Init /\ [][Next]_vars

\* the dump requests, over runs whose content never fails
DumpHalConfigs ==
    {c \in HalConfigs : c.shape = "One" /\ c.load = AllBytes(c.shape)}

InitDump ==
    /\ dbRuns \in SUBSET RunIds
    /\ store = EmptyStore
    /\ hal \in HalStates(DumpHalConfigs)
    /\ tempFiles = {}
    /\ req = NoRequest
    /\ resp = NoResponse
    /\ dumpOk = 0
    /\ lastEstimate = None
    /\ AtRest

NextDump ==
    \/ SingleDump
    \/ BatchDownload(DumpFaults)
    \/ BatchDump(DumpFaults)
    \/ Respond

SpecDump == InitDump /\ [][NextDump]_vars

\* the snapshot requests, over every content of the relational store
SnapFaults == {"none"}

InitSnap ==
    /\ dbRuns \in SUBSET RunIds
    /\ store \in Stores
    /\ hal \in HalStates(DumpHalConfigs)
    /\ tempFiles = {}
    /\ req = NoRequest
    /\ resp = NoResponse
    /\ dumpOk = 0
    /\ lastEstimate = None
    /\ AtRest

NextSnap ==
    \/ (dumpOk < MaxSingleDumps /\ SingleDump)
    \/ BatchDownload(SnapFaults)
    \/ BatchDump(SnapFaults)
    \/ Respond

SpecSnap == InitSnap /\ [][NextSnap]_vars

\* the estimator asked again by a client that keeps what it was told,
\* builds going on in between; the Access Layer loads every file
EstHalConfigs == {c \in HalConfigs : c.load = AllBytes(c.shape)}

InitEst ==
    /\ dbRuns \in SUBSET RunIds
    /\ store = EmptyStore
    /\ hal \in HalStates(EstHalConfigs)
    /\ tempFiles = {}
    /\ req = NoRequest
    /\ resp = NoResponse
    /\ dumpOk = 0
    /\ lastEstimate = None
    /\ AtRest

NextEst ==
    \/ EstimateBatch
    \/ BatchDownload(SnapFaults)
    \/ RespondKeep

SpecEst == InitEst /\ [][NextEst]_vars

\* the single-run passthrough requests
NextPass ==
    \/ ListContents
    \/ LoadContent
    \/ GetDownloadUrl
    \/ GetStorageInfo
    \/ Respond

SpecPass == InitDump /\ [][NextPass]_vars

---------------------------------------------------------------------------
(* What the backing data makes of a run, read off the data itself *)

IsDownload == req.op = "batch_download" /\ resp.status = 200
IsBatchDump == req.op = "batch_dump" /\ resp.status = 200
IsEstimate == req.op = "estimate" /\ resp.status = 200
Resolved == SeqToSet(req.order)
Unresolved == SeqToSet(req.run_ids) \ dbRuns

CollectFails(r) == hal[r].listRaise # None
RaisingLoads(r) == {i \in 1..Len(FileOrder(hal[r].shape)) :
                       hal[r].load[FileOrder(hal[r].shape)[i]] = "raise"}
LoadFails(r) == ~CollectFails(r) /\ RaisingLoads(r) # {}
SnapshotFails(r) == req.faults[r] # "none"

\* the loads made before the first one that raises
LoadedBefore(r) ==
    LET names == FileOrder(hal[r].shape)
    IN IF RaisingLoads(r) = {} THEN names
       ELSE SubSeq(names, 1, (CHOOSE i \in RaisingLoads(r) :
                                 \A j \in RaisingLoads(r) : i <= j) - 1)

HasContent(r, name) ==
    hal[r].load[name] = "bytes" /\ ContentLen(hal[r].shape, name) > 0

\* the members the loads before the first failure put under run_<r>/
ExpectedWritten(r) ==
    LET kept == SelectSeq(LoadedBefore(r), LAMBDA name : HasContent(r, name))
    IN [i \in 1..Len(kept) |-> Member(RunPrefix(r), kept[i])]

ExpectedSize(r) ==
    LET kept == SelectSeq(LoadedBefore(r), LAMBDA name : HasContent(r, name))
    IN SumSeq([i \in 1..Len(kept) |-> ContentLen(hal[r].shape, kept[i])])

MembersOf(zip, r) == SelectSeq(zip, LAMBDA m : m.dir = RunPrefix(r))
ContentMembers(zip, r) ==
    SelectSeq(zip, LAMBDA m : m.dir = RunPrefix(r) /\ m.base # "_metadata.db")
EntriesOf(entries, r) == SelectSeq(entries, LAMBDA e : e.run_id = r)
IdsOf(entries) == {entries[i].run_id : i \in 1..Len(entries)}
Without(s, r) == SelectSeq(s, LAMBDA x : x # r)

---------------------------------------------------------------------------
(* Claims *)

\* C1: when batch_download_v2 finishes, manifest.total_files equals the
\* number of content files written into the archive under the run_<id>/
\* prefixes, summed over all processed runs, also those whose processing
\* failed after some of their files were written.
C1_TotalFilesCountsWritten ==
    IsDownload =>
        resp.manifest.total_files =
            SumSeq([i \in 1..Len(req.order) |-> Len(ContentMembers(resp.zip, req.order[i]))])

\* C2: a run whose listing succeeds and whose k-th load raises keeps in the
\* final archive the members written by the loads before it, and
\* manifest.errors holds an entry with the run's id and the exception's message.
C2_PartialRunStays ==
    IsDownload =>
        \A r \in Resolved :
            LoadFails(r) =>
                /\ ContentMembers(resp.zip, r) = ExpectedWritten(r)
                /\ EntriesOf(resp.manifest.errors, r) = << [run_id |-> r, error |-> "read failed"] >>

C2_Witness ==
    /\ IsDownload
    /\ \E r \in Resolved :
          /\ LoadFails(r)
          /\ Len(LoadedBefore(r)) = 2
          /\ Len(ExpectedWritten(r)) >= 1
          /\ ContentMembers(resp.zip, r) = ExpectedWritten(r)

\* C3: a run that fails does not affect the others: every other resolved run
\* is processed, and has the archive members and the manifest.runs entry it
\* has when the failing run is not in the request.
C3_FailureIsolated ==
    IsDownload =>
        \A f \in IdsOf(resp.manifest.errors) :
            LET alone == batch_download_v2(dbRuns, hal, {}, Without(req.run_ids, f),
                                           Without(req.order, f), req.faults, 1).resp
            IN \A r \in Resolved \ {f} :
                  /\ r \in IdsOf(resp.manifest.runs) \cup IdsOf(resp.manifest.errors)
                  /\ alone.status = 200
                  /\ MembersOf(resp.zip, r) = MembersOf(alone.zip, r)
                  /\ EntriesOf(resp.manifest.runs, r) = EntriesOf(alone.manifest.runs, r)

C3_Witness ==
    /\ IsDownload
    /\ Len(req.order) = 2
    /\ req.order[1] \in IdsOf(resp.manifest.errors)
    /\ req.order[2] \in IdsOf(resp.manifest.runs)
    /\ Len(MembersOf(resp.zip, req.order[2])) >= 2

\* C4 as claimed: in both batch operations every run that fails during
\* collection, content loading or snapshot generation gets an entry in
\* manifest.errors, and the request completes with a success status.
C4_EveryFailureInErrors ==
    (req.op \in {"batch_download", "batch_dump"} /\ Resolved # {}) =>
        /\ resp.status = 200
        /\ \A r \in Resolved :
              (CollectFails(r) \/ LoadFails(r) \/ SnapshotFails(r))
                  => r \in IdsOf(resp.manifest.errors)

\* C4 as amended: once a run resolves both batch operations answer 200; in
\* batch_download_v2 a run gets an errors entry exactly when its collection
\* or content loading fails (a snapshot failure is only logged), in
\* batch_dump_metadata exactly when its snapshot generation fails.
C4_PartialSuccess ==
    /\ (req.op = "batch_download" /\ Resolved # {}) =>
          /\ resp.status = 200
          /\ Len(resp.zip) >= 1
          /\ \A r \in Resolved :
                (CollectFails(r) \/ LoadFails(r)) <=> r \in IdsOf(resp.manifest.errors)
    /\ (req.op = "batch_dump" /\ Resolved # {}) =>
          /\ resp.status = 200
          /\ Len(resp.zip) >= 1
          /\ \A r \in Resolved : SnapshotFails(r) <=> r \in IdsOf(resp.manifest.errors)

C4_Witness ==
    /\ IsDownload
    /\ Len(req.order) = 2
    /\ \A r \in Resolved : CollectFails(r) \/ LoadFails(r)
    /\ IdsOf(resp.manifest.errors) = Resolved
    /\ resp.zip = << ManifestMember >>

\* C5: when snapshot generation raises for a run whose files were all
\* collected and loaded, the run is not failed: its content members are in
\* the archive, it has no _metadata.db member, and manifest.runs records it
\* with its file_count and total_size.
C5_SnapshotBestEffort ==
    IsDownload =>
        \A r \in Resolved :
            (~CollectFails(r) /\ ~LoadFails(r) /\ SnapshotFails(r)) =>
                /\ MembersOf(resp.zip, r) = ExpectedWritten(r)
                /\ r \notin IdsOf(resp.manifest.errors)
                /\ EntriesOf(resp.manifest.runs, r) =
                      << [run_id |-> r, storage_mode |-> StorageMode(hal[r].shape),
                          file_count |-> Len(ExpectedWritten(r)),
                          total_size |-> ExpectedSize(r)] >>

C5_Witness ==
    /\ IsDownload
    /\ \E r \in Resolved :
          /\ ~CollectFails(r) /\ ~LoadFails(r) /\ SnapshotFails(r)
          /\ Len(ExpectedWritten(r)) = 3
          /\ MembersOf(resp.zip, r) = ExpectedWritten(r)
          /\ resp.created # {}

BatchOps == {"batch_download", "batch_dump"}
CallsFor(calls, id) == SelectSeq(calls, LAMBDA c : c.run = id)
ErrorIdsOf(detail) == {detail[i].run_id : i \in {j \in 1..Len(detail) : "error" \in DOMAIN detail[j]}}

C8_UnresolvedOmitted ==
    /\ IsDownload =>
          /\ \A id \in Unresolved :
                /\ CallsFor(resp.calls, id) = << >>
                /\ MembersOf(resp.zip, id) = << >>
                /\ id \notin IdsOf(resp.manifest.runs) \cup IdsOf(resp.manifest.errors)
          /\ \A id \in IdsOf(resp.manifest.errors) :
                id \in dbRuns /\ (CollectFails(id) \/ LoadFails(id))
    /\ (IsEstimate /\ resp.estimate # None) =>
          /\ \A id \in Unresolved :
                /\ CallsFor(resp.calls, id) = << >>
                /\ id \notin IdsOf(resp.estimate[1].runs_detail)
          /\ \A id \in ErrorIdsOf(resp.estimate[1].runs_detail) :
                id \in dbRuns /\ CollectFails(id)

C8_Witness ==
    /\ IsDownload
    /\ Unresolved # {}
    /\ Resolved # {}
    /\ IdsOf(resp.manifest.runs) = Resolved
    /\ resp.manifest.errors = << >>
    /\ resp.manifest.total_files = 3

\* C9: batch_download_v2 answers an empty run_ids with a validation error
\* and a request none of whose ids resolves with not-found, and in both
\* cases before any archive work: no access-layer call, no temporary file,
\* no archive member.
C9_FailFast ==
    req.op = "batch_download" =>
        /\ req.run_ids = << >> => resp.status \in {400, 422}
        /\ (req.run_ids # << >> /\ SeqToSet(req.run_ids) \cap dbRuns = {}) =>
              resp.status = 404
        /\ SeqToSet(req.run_ids) \cap dbRuns = {} =>
              /\ resp.calls = << >>
              /\ resp.created = {}
              /\ resp.zip = << >>
              /\ tempFiles = {}

C9_Witness ==
    /\ req.op = "batch_download"
    /\ req.run_ids # << >>
    /\ SeqToSet(req.run_ids) \cap dbRuns = {}
    /\ resp.status = 404
    /\ resp.zip = << >>

C9_WitnessEmpty ==
    /\ req.op = "batch_download"
    /\ req.run_ids = << >>
    /\ resp.status = 422

\* C10 as claimed: can_download is true if and only if the aggregate
\* estimated size is at most 500*1024*1024 bytes.
C10_CanDownloadIffWithinCap ==
    (IsEstimate /\ resp.estimate # None) =>
        (resp.estimate[1].can_download
            <=> resp.estimate[1].estimated_size_bytes <= 500 * 1024 * 1024)

\* C10 as amended: for an estimate over at least one resolved run
\* can_download is true if and only if the aggregate estimated size is at
\* most 500*1024*1024 bytes (exactly the cap: true, one byte more: false);
\* with no resolved run it is false although the aggregate is 0.
C10_CanDownloadIffWithinCapResolved ==
    (IsEstimate /\ resp.estimate # None) =>
        LET est == resp.estimate[1]
        IN /\ Resolved # {} =>
                /\ est.can_download <=> est.estimated_size_bytes <= 500 * 1024 * 1024
                /\ est.estimated_size_bytes = 500 * 1024 * 1024 => est.can_download
                /\ est.estimated_size_bytes = 500 * 1024 * 1024 + 1 => ~est.can_download
           /\ Resolved = {} => ~est.can_download /\ est.estimated_size_bytes = 0

C10_Witness ==
    /\ IsEstimate
    /\ resp.estimate # None
    /\ Len(req.order) = 2
    /\ resp.estimate[1].estimated_size_bytes = 500 * 1024 * 1024
    /\ resp.estimate[1].can_download

C10_WitnessOneMore ==
    /\ IsEstimate
    /\ resp.estimate # None
    /\ resp.estimate[1].estimated_size_bytes = 500 * 1024 * 1024 + 1
    /\ ~resp.estimate[1].can_download

\* the file items of a run's namespace, over all its listings
ListedFiles(r) ==
    {it \in UNION {SeqToSet(Listing(hal[r].shape)[p]) : p \in DOMAIN Listing(hal[r].shape)} :
        it.type = "file"}
ListedSize(it) == IF Truthy(it.size) THEN it.size[1] ELSE 0

RECURSIVE SumOver(_, _, _)
SumOver(S, F(_), acc) ==
    IF S = {} THEN acc
    ELSE LET x == CHOOSE y \in S : TRUE IN SumOver(S \ {x}, F, acc + F(x))

RunListedCount(r) == Cardinality(ListedFiles(r))
RunListedSize(r) == SumOver(ListedFiles(r), ListedSize, 0)
Collected == {r \in Resolved : ~CollectFails(r)}

\* C11: in the estimator, a resolved run whose collection raises contributes
\* zero to total_files and estimated_size_bytes and gets a {run_id, error}
\* entry in runs_detail; every other run is still estimated, and the
\* aggregate is the sum over the runs collected without error.
C11_EstimateErrorIsolated ==
    (IsEstimate /\ Resolved # {}) =>
        LET est == resp.estimate[1]
        IN /\ est.total_files = SumOver(Collected, RunListedCount, 0)
           /\ est.estimated_size_bytes = SumOver(Collected, RunListedSize, 0)
           /\ Len(est.runs_detail) = Len(req.order)
           /\ \A i \in 1..Len(req.order) :
                 LET r == req.order[i]
                     d == est.runs_detail[i]
                 IN /\ d.run_id = r
                    /\ CollectFails(r) => DOMAIN d = {"run_id", "error"}
                    /\ ~CollectFails(r) =>
                          /\ "error" \notin DOMAIN d
                          /\ d.file_count = RunListedCount(r)
                          /\ d.estimated_size = RunListedSize(r)

\* a run fails after part of its tree was collected, and the run after it
\* is estimated
C11_Witness ==
    /\ IsEstimate
    /\ Len(req.order) = 2
    /\ hal[req.order[1]].listRaise = Some(Path("d/e", TRUE))
    /\ ~CollectFails(req.order[2])
    /\ resp.estimate[1].total_files = 3
    /\ resp.estimate[1].estimated_size_bytes = RunListedSize(req.order[2])
    /\ "error" \in DOMAIN resp.estimate[1].runs_detail[1]
    /\ "error" \notin DOMAIN resp.estimate[1].runs_detail[2]

ShortCircuited(est) ==
    /\ est.run_count = 0
    /\ est.total_files = 0
    /\ est.estimated_size_bytes = 0
    /\ ~est.can_download
    /\ est.message # None
    /\ est.message[1] # ""
    /\ est.runs_detail = << >>

\* C12 as claimed: the estimator never raises for an empty run_ids list or
\* for a request in which zero ids resolve: it answers a normal result with
\* run_count = 0, total_files = 0, size 0, can_download = false and a
\* non-empty message, without calling the Access Layer.
C12_EstimatorNeverRaises ==
    (req.op = "estimate" /\ Resolved = {}) =>
        /\ resp.status = 200
        /\ resp.estimate # None
        /\ ShortCircuited(resp.estimate[1])
        /\ resp.calls = << >>

\* C12 as amended: for a non-empty request in which zero ids resolve the
\* estimator answers a normal result with run_count = 0, total_files = 0,
\* size 0, can_download = false and a non-empty message, without an Access
\* Layer call; an empty run_ids list is rejected by the request model with a
\* validation error and gets no estimate.
C12_ZeroResolvedShortCircuits ==
    (req.op = "estimate" /\ Resolved = {}) =>
        /\ resp.calls = << >>
        /\ req.run_ids # << >> =>
              /\ resp.status = 200
              /\ resp.estimate # None
              /\ ShortCircuited(resp.estimate[1])
        /\ req.run_ids = << >> =>
              /\ resp.status = 422
              /\ resp.estimate = None

C12_Witness ==
    /\ req.op = "estimate"
    /\ req.run_ids # << >>
    /\ Resolved = {}
    /\ resp.status = 200
    /\ resp.estimate # None
    /\ resp.estimate[1].message = Some("No runs found")
    /\ \E r \in RunIds : hal[r] # NoStorage

C12_WitnessEmpty ==
    /\ req.op = "estimate"
    /\ req.run_ids = << >>
    /\ resp.status = 422

\* C13 as claimed: for a request whose ids resolve to no Run row at all,
\* both the estimate operation and the build operation return not-found.
C13_BothNotFound ==
    (req.op \in {"estimate", "batch_download"} /\ req.run_ids # << >> /\ Resolved = {}) =>
        resp.status = 404

\* C13 as amended: for a non-empty request whose ids resolve to no Run row,
\* the build operation returns not-found (404, "No runs found") while the
\* estimate operation returns a normal result that carries the message
\* "No runs found" with run_count = 0 and can_download = false.
C13_NotFoundOnlyFromBuild ==
    (req.run_ids # << >> /\ Resolved = {}) =>
        /\ req.op = "batch_download" =>
              resp.status = 404 /\ resp.detail = "No runs found"
        /\ req.op = "estimate" =>
              /\ resp.status = 200
              /\ resp.detail = ""
              /\ resp.estimate # None
              /\ resp.estimate[1].message = Some("No runs found")
              /\ resp.estimate[1].run_count = 0
              /\ ~resp.estimate[1].can_download

C13_Witness ==
    /\ req.op = "estimate"
    /\ Len(req.run_ids) = MaxReqLen
    /\ SeqToSet(req.run_ids) \cap dbRuns = {}
    /\ dbRuns # {}
    /\ resp.status = 200
    /\ resp.estimate # None

C13_WitnessBuild ==
    /\ req.op = "batch_download"
    /\ Len(req.run_ids) = MaxReqLen
    /\ SeqToSet(req.run_ids) \cap dbRuns = {}
    /\ dbRuns # {}
    /\ resp.status = 404

\* the snapshots a successful dump or build request returned
ServesSnapshots ==
    /\ req.op \in {"batch_download", "batch_dump", "single_dump"}
    /\ resp.status = 200
Snapshots == SeqToSet(resp.dumps)

\* the processes of run r, read off the store
ProcessesOfRun(r) == {p \in store.processes : p.run_id = r}
BelongsToRun(row, r) == \E p \in ProcessesOfRun(r) : p.id = row.process_id

\* C14: a metadata snapshot for run r contains exactly one runs row (that of
\* r), exactly the processes with run_id = r, exactly the operations and
\* ports whose process_id is one of those processes, and exactly the edges
\* with run_id = r; no row of another run is included, for any content of
\* the relational store.
C14_SnapshotScopedToRun ==
    ServesSnapshots =>
        /\ Len(resp.dumps) = Len(IF req.op = "single_dump" THEN req.run_ids ELSE req.order)
        /\ \A i \in 1..Len(resp.dumps) :
              LET r == IF req.op = "single_dump" THEN req.run_ids[i] ELSE req.order[i]
                  t == resp.dumps[i].tables
              IN /\ r \in dbRuns
                 /\ t.runs = {[id |-> r]}
                 /\ t.processes = ProcessesOfRun(r)
                 /\ t.operations = {op \in store.operations : BelongsToRun(op, r)}
                 /\ t.ports = {port \in store.ports : BelongsToRun(port, r)}
                 /\ t.edges = {e \in store.edges : e.run_id = r}

\* a batch snapshot that takes one process and its operation and leaves out
\* a process and an edge of another run
C14_Witness ==
    /\ req.op \in {"batch_download", "batch_dump"}
    /\ resp.status = 200
    /\ \E d \in Snapshots :
          /\ d.tables.processes # {}
          /\ d.tables.processes # store.processes
          /\ d.tables.operations # {}
          /\ d.tables.ports = {} /\ store.ports # {}
          /\ d.tables.edges = {} /\ store.edges # {}

C14_WitnessSingle ==
    /\ req.op = "single_dump"
    /\ resp.status = 200
    /\ \E d \in Snapshots :
          /\ d.tables.processes # {}
          /\ d.tables.processes # store.processes
          /\ d.tables.ports # {}
          /\ d.tables.edges = {} /\ store.edges # {}

\* C15 as claimed: for a run with zero processes the snapshot contains
\* exactly one runs row and zero rows in each of processes, operations,
\* edges and ports, whatever other rows the relational store holds.
C15_NoProcessesOnlyRunRow ==
    ServesSnapshots =>
        \A d \in Snapshots :
            ProcessesOfRun(d.run) = {} =>
                /\ Cardinality(d.tables.runs) = 1
                /\ d.tables.processes = {}
                /\ d.tables.operations = {}
                /\ d.tables.ports = {}
                /\ d.tables.edges = {}

\* C15 as amended: for a run with zero processes the snapshot contains
\* exactly one runs row and zero rows in processes, operations and ports,
\* whatever other rows the store holds; its edges table holds exactly the
\* edges with the run's id, so it is empty when the run has no edge.
C15_NoProcessesNoDependentRows ==
    ServesSnapshots =>
        \A d \in Snapshots :
            ProcessesOfRun(d.run) = {} =>
                /\ Cardinality(d.tables.runs) = 1
                /\ d.tables.processes = {}
                /\ d.tables.operations = {}
                /\ d.tables.ports = {}
                /\ d.tables.edges = {e \in store.edges : e.run_id = d.run}
                /\ (\A e \in store.edges : e.run_id # d.run) => d.tables.edges = {}

\* a run without processes is dumped from a store that holds processes,
\* operations, ports and edges of another run
C15_Witness ==
    /\ ServesSnapshots
    /\ \E d \in Snapshots :
          /\ ProcessesOfRun(d.run) = {}
          /\ store.processes # {}
          /\ store.operations # {}
          /\ store.ports # {}
          /\ store.edges # {}
          /\ d.tables.edges = {}
          /\ d.tables.operations = {}

\* a run without processes whose id an edge carries
C15_WitnessEdge ==
    /\ ServesSnapshots
    /\ \E d \in Snapshots :
          /\ ProcessesOfRun(d.run) = {}
          /\ d.tables.edges # {}

IsPassthrough == req.op \in {"list", "content", "download_url", "info"}
HalRaised(type) ==
    /\ resp.hal_out # None
    /\ ~resp.hal_out[1].ok
    /\ resp.hal_out[1].exc.type = type

\* C16: each of the four passthrough operations (list, content,
\* download-url, info) translates Access Layer failures the same way: a
\* missing run or path yields 404, a backend-unavailable condition yields
\* 503, and any other failure yields 500.
C16_UniformTranslation ==
    IsPassthrough =>
        /\ HalRaised("ValueError") => resp.status = 404
        /\ HalRaised("RuntimeError") => resp.status = 503
        /\ HalRaised("Exception") => resp.status = 500

\* the well-formed UTF-8 byte sequences of one code point
WellFormedUnit(u) ==
    LET n == Len(u)
        Cont(i) == u[i] >= 128 /\ u[i] <= 191
    IN \/ n = 1 /\ u[1] <= 127
       \/ n = 2 /\ u[1] \in 194..223 /\ Cont(2)
       \/ /\ n = 3
          /\ Cont(3)
          /\ \/ u[1] = 224 /\ u[2] \in 160..191
             \/ u[1] \in (225..236) \cup (238..239) /\ Cont(2)
             \/ u[1] = 237 /\ u[2] \in 128..159
       \/ /\ n = 4
          /\ Cont(3) /\ Cont(4)
          /\ \/ u[1] = 240 /\ u[2] \in 144..191
             \/ u[1] \in 241..243 /\ Cont(2)
             \/ u[1] = 244 /\ u[2] \in 128..143

\* a byte string is valid UTF-8 when it splits into well-formed units
RECURSIVE ValidUtf8(_)
ValidUtf8(b) ==
    \/ b = << >>
    \/ \E k \in 1..Len(b) :
          WellFormedUnit(SubSeq(b, 1, k)) /\ ValidUtf8(SubSeq(b, k + 1, Len(b)))

\* str.encode('utf-8') of one code point, and of a text
Utf8Unit(cp) ==
    IF cp < 128 THEN << cp >>
    ELSE IF cp < 2048 THEN << 192 + cp \div 64, 128 + (cp % 64) >>
    ELSE IF cp < 65536
    THEN << 224 + cp \div 4096, 128 + ((cp \div 64) % 64), 128 + (cp % 64) >>
    ELSE << 240 + cp \div 262144, 128 + ((cp \div 4096) % 64),
            128 + ((cp \div 64) % 64), 128 + (cp % 64) >>

RECURSIVE Utf8Encode(_)
Utf8Encode(text) ==
    IF text = << >> THEN << >> ELSE Utf8Unit(Head(text)) \o Utf8Encode(Tail(text))

\* base64 decoding, read off the standard
B64Index(c) == (CHOOSE i \in 1..64 : B64Alphabet[i] = c) - 1

RECURSIVE B64Decode(_)
B64Decode(chars) ==
    IF chars = << >> THEN << >>
    ELSE LET i1 == B64Index(chars[1])
             i2 == B64Index(chars[2])
             rest == B64Decode(SubSeq(chars, 5, Len(chars)))
         IN IF chars[3] = "=" THEN << i1 * 4 + i2 \div 16 >> \o rest
            ELSE IF chars[4] = "="
            THEN << i1 * 4 + i2 \div 16,
                    (i2 % 16) * 16 + B64Index(chars[3]) \div 4 >> \o rest
            ELSE << i1 * 4 + i2 \div 16,
                    (i2 % 16) * 16 + B64Index(chars[3]) \div 4,
                    (B64Index(chars[3]) % 4) * 64 + B64Index(chars[4]) >> \o rest

IsB64Text(chars) ==
    /\ Len(chars) % 4 = 0
    /\ \A i \in 1..Len(chars) :
          \/ chars[i] \in SeqToSet(B64Alphabet)
          \/ chars[i] = "=" /\ i > Len(chars) - 2 /\ (i < Len(chars) => chars[i + 1] = "=")

ReturnedContent == req.op = "content" /\ resp.hal_out # None /\ resp.hal_out[1].ok

\* C17: for every byte string the Access Layer returns as present content
\* the preview declares exactly one encoding: utf-8 when the bytes are valid
\* UTF-8 (content being the decoded text) and base64 otherwise, the base64
\* content decoding to the original bytes exactly; absent content yields
\* not-found rather than a response without encoding.
C17_PreviewEncoding ==
    ReturnedContent =>
        LET got == resp.hal_out[1].val
        IN /\ got = None => resp.status = 404 /\ resp.body = None
           /\ got # None =>
                 /\ resp.status = 200
                 /\ resp.body # None
                 /\ DOMAIN resp.body[1] = {"content", "encoding"}
                 /\ resp.body[1].encoding \in {"utf-8", "base64"}
                 /\ resp.body[1].encoding = "utf-8" <=> ValidUtf8(got[1])
                 /\ resp.body[1].encoding = "utf-8" =>
                       /\ Utf8Encode(resp.body[1].content) = got[1]
                       /\ \A i \in 1..Len(resp.body[1].content) :
                             resp.body[1].content[i] \notin 55296..57343
                 /\ resp.body[1].encoding = "base64" =>
                       /\ IsB64Text(resp.body[1].content)
                       /\ B64Decode(resp.body[1].content) = got[1]

\* bytes that are not UTF-8 and need padding are previewed as base64
C17_Witness ==
    /\ ReturnedContent
    /\ resp.hal_out[1].val = Some(<< 255, 65 >>)
    /\ resp.body # None
    /\ resp.body[1] = [content |-> << "/", "0", "E", "=" >>, encoding |-> "base64"]

\* a three-byte and a two-byte sequence are previewed as text
C17_WitnessText ==
    /\ ReturnedContent
    /\ resp.hal_out[1].val = Some(<< 195, 169, 65 >>)
    /\ resp.body # None
    /\ resp.body[1] = [content |-> << 233, 65 >>, encoding |-> "utf-8"]

\* an overlong lead byte and a surrogate are not text
C17_WitnessOverlong ==
    /\ ReturnedContent
    /\ resp.hal_out[1].val \in {Some(<< 192, 169 >>), Some(<< 237, 169, 130 >>)}
    /\ resp.body # None
    /\ resp.body[1].encoding = "base64"

C17_WitnessAbsent ==
    /\ ReturnedContent
    /\ resp.hal_out[1].val = None
    /\ resp.status = 404

\* C18: in every archive returned by batch_download_v2 or
\* batch_dump_metadata, manifest.json is written exactly once and is the
\* last member: after the last member of the last run, whichever runs
\* failed, and nothing is written after it.
C18_ManifestLast ==
    (IsDownload \/ IsBatchDump) =>
        /\ resp.zip # << >>
        /\ resp.zip[Len(resp.zip)] = ManifestMember
        /\ \A i \in 1..(Len(resp.zip) - 1) :
              /\ resp.zip[i] # ManifestMember
              /\ resp.zip[i].dir \in {RunPrefix(r) : r \in Resolved}
                 \/ resp.zip[i] \in {DumpMember(r) : r \in Resolved}

\* a build in which the first run is written in part and fails and the
\* second is written: the manifest follows the second run's last member
C18_Witness ==
    /\ IsDownload
    /\ Len(req.order) = 2
    /\ LoadFails(req.order[1])
    /\ IdsOf(resp.manifest.errors) = {req.order[1]}
    /\ Len(resp.zip) >= 4
    /\ resp.zip[1].dir = RunPrefix(req.order[1])
    /\ resp.zip[Len(resp.zip) - 1].dir = RunPrefix(req.order[2])
    /\ resp.zip[Len(resp.zip)] = ManifestMember

C18_WitnessDump ==
    /\ IsBatchDump
    /\ Len(req.order) = 2
    /\ Len(resp.manifest.errors) = 1
    /\ Len(resp.zip) = 2
    /\ resp.zip[2] = ManifestMember

Occurrences(s, x) == Len(SelectSeq(s, LAMBDA y : y = x))
HasDuplicates(s) == \E i \in 1..Len(s) : \E j \in 1..Len(s) : i # j /\ s[i] = s[j]

\* C19: when a run id occurs more than once in the request,
\* batch_download_v2 processes the run exactly once: it is collected once,
\* its members are written once, and its id occurs at most once across
\* manifest.runs and manifest.errors.
C19_DuplicatesCollapse ==
    (IsDownload /\ HasDuplicates(req.run_ids)) =>
        \A r \in Resolved :
            /\ Occurrences(resp.calls, ListCall(r, RootPrefix)) = 1
            /\ ~HasDuplicates(MembersOf(resp.zip, r))
            /\ ~LoadFails(r) /\ ~CollectFails(r) =>
                  ContentMembers(resp.zip, r) = ExpectedWritten(r)
            /\ Len(EntriesOf(resp.manifest.runs, r))
                  + Len(EntriesOf(resp.manifest.errors, r)) = 1

\* the same run is named twice and its three files are in the archive once
C19_Witness ==
    /\ IsDownload
    /\ Len(req.run_ids) = 2
    /\ req.run_ids[1] = req.run_ids[2]
    /\ Resolved = {req.run_ids[1]}
    /\ resp.manifest.total_files = 3
    /\ Len(ContentMembers(resp.zip, req.run_ids[1])) = 3

Totals(est) ==
    << est.run_count, est.total_files, est.estimated_size_bytes, est.can_download >>

AskedAgain ==
    /\ req.op = "estimate"
    /\ resp.estimate # None
    /\ lastEstimate # None
    /\ lastEstimate[1].run_ids = req.run_ids

\* C20: estimation is repeatable: two estimate calls with identical run
\* ids, the relational store and the Access Layer's listings unchanged in
\* between, return identical run_count, total_files, estimated_size_bytes
\* and can_download, and an estimate call changes no state a later call
\* reads.
C20_EstimateRepeatable ==
    /\ [](AskedAgain => Totals(resp.estimate[1]) = Totals(lastEstimate[1].estimate))
    /\ [][(req.op = "none" /\ req'.op = "estimate") =>
             UNCHANGED <<dbRuns, store, hal, tempFiles>>]_vars

\* the second call gets the rows in the other order and the same totals
C20_Witness ==
    /\ AskedAgain
    /\ Len(req.order) = 2
    /\ resp.estimate[1].runs_detail # lastEstimate[1].estimate.runs_detail
    /\ CollectFails(req.order[1])
    /\ resp.estimate[1].total_files = 3
    /\ Totals(resp.estimate[1]) = Totals(lastEstimate[1].estimate)

---------------------------------------------------------------------------
(* The content collector, frame by frame                                   *)

\* frames the interpreter grants the collector before it raises
\* RecursionError (sys.getrecursionlimit() less the frames already in use)
RecursionLimit == 3
MaxListed == 3       \* a listing has at most this many items

\* a chain of directories d/, d/d/, ... and a directory x next to it
RECURSIVE DirName(_)
DirName(k) == IF k = 1 THEN "d" ELSE DirName(k - 1) \o "/d"
ChainDir(k) == IF k = 0 THEN RootPrefix ELSE Path(DirName(k), TRUE)
ChainFile(k) ==
    IF k = 0 THEN FileItem("f.txt", Some(1), Some("s3"))
    ELSE FileItem(DirName(k) \o "/f.txt", Some(k + 1), Some("local"))
SideDir == Path("x", TRUE)
SideFile == FileItem("x/y.log", None, None)
MaxChain == RecursionLimit

\* the items the directory at depth k of the chain can list
ChainItems(k) ==
    {ChainFile(k)}
    \cup (IF k < MaxChain THEN {DirItem(DirName(k + 1), TRUE)} ELSE {})
    \cup (IF k = 0 THEN {DirItem("x", slash) : slash \in BOOLEAN} ELSE {})

\* ordered listings without a repeated path
ListingsOver(C) ==
    {s \in SeqsOver(C, MaxListed) :
        \A i \in 1..Len(s) : \A j \in 1..Len(s) :
            i # j => s[i].path.name # s[j].path.name}

Lists(s, name) == \E i \in 1..Len(s) : s[i].type = "directory" /\ s[i].path.name = name

SideListings(s) ==
    IF Lists(s, "x") THEN {SideDir :> l : l \in ListingsOver({SideFile})}
    ELSE {SideDir :> << >>}

\* the namespaces below the directory at depth k; a directory that no
\* listing reaches lists nothing
RECURSIVE Below(_)
Below(k) ==
    LET here == ListingsOver(ChainItems(k))
        deeper(s) == IF k < MaxChain /\ Lists(s, DirName(k + 1))
                     THEN Below(k + 1)
                     ELSE {[p \in {ChainDir(j) : j \in (k + 1)..MaxChain} |-> << >>]}
    IN IF k = 0
       THEN UNION {{((ChainDir(k) :> s) @@ rest) @@ side :
                       rest \in deeper(s), side \in SideListings(s)} : s \in here}
       ELSE UNION {{(ChainDir(k) :> s) @@ rest : rest \in deeper(s)} : s \in here}

\* the tree-shaped namespaces
Trees == Below(0)

\* the prefixes a walk from the root can reach
Reached(ns) ==
    {RootPrefix}
    \cup {ChainDir(k) : k \in {j \in 1..MaxChain : Lists(ns[ChainDir(j - 1)], DirName(j))}}
    \cup (IF Lists(ns[RootPrefix], "x") THEN {SideDir} ELSE {})

\* a namespace with a cycle: the directory at depth k of a tree lists the
\* first directory of the chain, itself or one above it, again
Cyclic(ns) == \E k \in 1..MaxChain : Lists(ns[ChainDir(k)], DirName(1))
BackLink(ns, k) == [ns EXCEPT ![ChainDir(k)] = Append(@, DirItem(DirName(1), TRUE))]
ChainTrees == {ns \in Trees : SideDir \notin Reached(ns)}
Cycles == UNION {{BackLink(ns, k) : k \in {j \in 1..MaxChain : ChainDir(j) \in Reached(ns)}} :
                    ns \in ChainTrees}

\* what the Access Layer serves for a run with a drawn namespace
DrawnConfigs(N) ==
    UNION {{[shape |-> "Drawn", listRaise |-> lr, load |-> AllBytes("Drawn"),
             listing |-> ns] : lr \in {None} \cup {Some(p) : p \in Reached(ns)}} :
           ns \in N}

\* (a collector that detected cycles would not visit the items of a prefix
\* it has listed before)
FrameOnce(prefix, items) ==
    [prefix |-> prefix,
     items |-> IF \E i \in 1..Len(walk.calls) : walk.calls[i].path = prefix
               THEN << >> ELSE items,
     files |-> << >>]

\* one activation of _collect_all_files_recursive: the prefix it was called
\* with, the items its for loop has not visited yet, its local list files
Frame(prefix, items) == [prefix |-> prefix, items |-> items, files |-> << >>]

\* the dict appended for a file item
FileInfo(item) ==
    [path |-> item.path,
     size |-> IF Truthy(item.size) THEN item.size[1] ELSE 0,
     source |-> IF item.source # None THEN item.source[1] ELSE "unknown"]

\* sub_prefix: the directory's path, slash-terminated
SubPrefixAsListed(item) == item.path
SubPrefix(item) == IF item.path.slash THEN item.path ELSE Path(item.path.name, TRUE)

\* (an except clause that swallowed the error would return what it has)
PropagateSuppressed(w, calls, exc) ==
    [w EXCEPT !.status = "returned", !.stack = << >>, !.calls = calls,
              !.result = Some(<< >>)]

\* an exception nobody catches unwinds every frame: no list is returned
Propagate(w, calls, exc) ==
    [w EXCEPT !.status = "raised", !.stack = << >>, !.calls = calls, !.exc = exc]

Depth == Len(walk.stack)
Top == walk.stack[Depth]
StartPrefixes == {RootPrefix, ChainDir(1)}

\* a caller calls the collector for a run
CollectCall ==
    /\ walk.status = "idle"
    /\ \E run_id \in RunIds : \E prefix \in StartPrefixes :
          LET items == list_contents(hal, run_id, prefix)
              called == [walk EXCEPT !.run = run_id, !.prefix = prefix]
              calls == << ListCall(run_id, prefix) >>
          IN walk' = IF ~items.ok THEN Propagate(called, calls, items.exc)
                     ELSE [called EXCEPT !.status = "running", !.calls = calls,
                                         !.stack = << Frame(prefix, items.val) >>]
    /\ UNCHANGED <<exportVars, imp, exports, procOps, boot>>

\* the loop visits a file item
VisitFile ==
    /\ walk.status = "running"
    /\ Top.items # << >>
    /\ Head(Top.items).type = "file"
    /\ walk' = [walk EXCEPT !.stack[Depth].items = Tail(@),
                            !.stack[Depth].files = Append(@, FileInfo(Head(Top.items)))]
    /\ UNCHANGED <<exportVars, imp, exports, procOps, boot>>

\* the loop visits a directory item and calls itself for it
EnterDirectory ==
    /\ walk.status = "running"
    /\ Top.items # << >>
    /\ Head(Top.items).type = "directory"
    /\ LET item == Head(Top.items)
           sub_prefix == SubPrefix(item)
           items == list_contents(hal, walk.run, sub_prefix)
           calls == Append(walk.calls, ListCall(walk.run, sub_prefix))
       IN walk' =
            IF Depth >= RecursionLimit
            THEN Propagate(walk, walk.calls,
                           [type |-> "RecursionError",
                            msg |-> "maximum recursion depth exceeded"])
            ELSE IF ~items.ok THEN Propagate(walk, calls, items.exc)
            ELSE [walk EXCEPT !.calls = calls,
                              !.stack = Append([@ EXCEPT ![Depth].items = Tail(@)],
                                               Frame(sub_prefix, items.val))]
    /\ UNCHANGED <<exportVars, imp, exports, procOps, boot>>

\* the loop is over: return files, which the calling frame extends its own with
Return ==
    /\ walk.status = "running"
    /\ Top.items = << >>
    /\ walk' = IF Depth = 1
               THEN [walk EXCEPT !.status = "returned", !.stack = << >>,
                                 !.result = Some(Top.files)]
               ELSE [walk EXCEPT !.stack = [SubSeq(@, 1, Depth - 1) EXCEPT
                                               ![Depth - 1].files = @ \o Top.files]]
    /\ UNCHANGED <<exportVars, imp, exports, procOps, boot>>

NextWalk ==
    \/ CollectCall
    \/ VisitFile
    \/ EnterDirectory
    \/ Return

\* run 1 has a drawn namespace, the other run ids have no Run row
InitWalk(Configs) ==
    /\ dbRuns = {1}
    /\ store = EmptyStore
    /\ hal \in {[r \in RunIds |-> IF r = 1 THEN c ELSE NoStorage] : c \in Configs}
    /\ tempFiles = {}
    /\ req = NoRequest
    /\ resp = NoResponse
    /\ dumpOk = 0
    /\ lastEstimate = None
    /\ AtRest

\* the collector over tree-shaped namespaces, any one listing may raise
InitCollect == InitWalk(DrawnConfigs(Trees))
SpecCollect == InitCollect /\ [][NextWalk]_vars

\* the collector over namespaces with and without a cycle, no listing
\* raises; the interpreter keeps running the call until it is over
InitCycle == InitWalk({c \in DrawnConfigs(ChainTrees \cup Cycles) : c.listRaise = None})
SpecCycle == InitCycle /\ [][NextWalk]_vars /\ WF_vars(NextWalk)

---------------------------------------------------------------------------
(* The collector's contract, read off the namespace                        *)

Namespace == hal[1].listing
Finished == walk.status \in {"returned", "raised"}

\* the files of the subtree under a prefix, each with its trail: the
\* positions, listing by listing, that lead from the prefix to the file
RECURSIVE Located(_, _, _)
Located(ns, prefix, trail) ==
    UNION {LET item == ns[prefix][i]
           IN IF item.type = "file"
              THEN {[info |-> FileInfo(item), trail |-> Append(trail, i)]}
              ELSE Located(ns, Path(item.path.name, TRUE), Append(trail, i)) :
           i \in 1..Len(ns[prefix])}

\* the directories of the subtree under a prefix, the prefix included
RECURSIVE Directories(_, _)
Directories(ns, prefix) ==
    {prefix} \cup UNION {Directories(ns, Path(ns[prefix][i].path.name, TRUE)) :
                            i \in {j \in 1..Len(ns[prefix]) : ns[prefix][j].type = "directory"}}

\* frames a walk of the subtree needs: the longest chain of directories
RECURSIVE Height(_, _)
Height(ns, prefix) ==
    LET below == {Height(ns, Path(ns[prefix][i].path.name, TRUE)) :
                     i \in {j \in 1..Len(ns[prefix]) : ns[prefix][j].type = "directory"}}
    IN 1 + (IF below = {} THEN 0 ELSE CHOOSE h \in below : \A g \in below : g <= h)

\* trail a comes before trail b in depth-first pre-order
Before(a, b) ==
    \E k \in 1..Len(a) :
        /\ k <= Len(b)
        /\ \A i \in 1..(k - 1) : a[i] = b[i]
        /\ a[k] < b[k]

TrailOf(located, info) == (CHOOSE l \in located : l.info = info).trail

\* the list is exactly the files of the subtree, each once, in pre-order
PreOrderOf(files, located) ==
    /\ SeqToSet(files) = {l.info : l \in located}
    /\ Len(files) = Cardinality(located)
    /\ \A i \in 1..Len(files) : \A j \in 1..Len(files) :
          i < j => Before(TrailOf(located, files[i]), TrailOf(located, files[j]))

\* no directory is emitted, and every directory is listed under its
\* slash-terminated path
DirectoriesTraversed(files, calls, ns, prefix) ==
    /\ \A i \in 1..Len(files) :
          \A d \in Directories(ns, prefix) : files[i].path.name # d.name \/ d = RootPrefix
    /\ {c.path : c \in SeqToSet(calls)} = Directories(ns, prefix)

ListingRaisesIn(prefix) ==
    hal[1].listRaise # None /\ hal[1].listRaise[1] \in Directories(Namespace, prefix)

\* a walk of run 1 that is over and met no failing listing
WalkedThrough == Finished /\ walk.run = 1 /\ ~ListingRaisesIn(walk.prefix)

ReturnedPreOrder ==
    /\ walk.status = "returned"
    /\ PreOrderOf(walk.result[1], Located(Namespace, walk.prefix, << >>))
    /\ DirectoriesTraversed(walk.result[1], walk.calls, Namespace, walk.prefix)

\* C21 (as stated): for every finite tree-shaped listing, collect returns
\* exactly the file items of the subtree under prefix, each once, in
\* depth-first pre-order of the listing order, never a directory item, and
\* recurses into a directory path without '/' with '/' appended.
C21_PreOrderEveryTree == WalkedThrough => ReturnedPreOrder

\* C21 (amended): the same for every tree-shaped listing whose nesting fits
\* into the frames the interpreter grants; there the list also is the one
\* the handlers get.  Over a tree nested deeper, collect returns no list:
\* it raises RecursionError.
C21_PreOrderWithinRecursionLimit ==
    WalkedThrough =>
        IF Height(Namespace, walk.prefix) <= RecursionLimit
        THEN /\ ReturnedPreOrder
             /\ walk.result[1] = _collect_all_files_recursive(hal, 1, walk.prefix).files
        ELSE /\ walk.status = "raised"
             /\ walk.exc.type = "RecursionError"
             /\ walk.result = None

\* a walk from the root returned four files: a nested one first, the
\* root's own file after it, then the file of a directory listed without '/'
C21_Witness ==
    /\ WalkedThrough
    /\ walk.prefix = RootPrefix
    /\ walk.status = "returned"
    /\ Len(walk.result[1]) = 4
    /\ walk.result[1][1].path.name = "d/f.txt"
    /\ walk.result[1][2].path.name = "d/d/f.txt"
    /\ walk.result[1][3].path.name = "f.txt"
    /\ walk.result[1][4] = [path |-> Path("x/y.log", FALSE), size |-> 0, source |-> "unknown"]
    /\ Namespace[RootPrefix][3] = DirItem("x", FALSE)

\* a tree nested deeper than the frames granted: RecursionError
C21_WitnessTooDeep ==
    /\ WalkedThrough
    /\ ~Cyclic(Namespace)
    /\ Height(Namespace, walk.prefix) > RecursionLimit
    /\ walk.exc.type = "RecursionError"

---------------------------------------------------------------------------
\* the listing the Access Layer fails, when the walk gets to it
FailingPrefix == hal[1].listRaise[1]
MeetsFailure ==
    /\ walk.run = 1
    /\ ListingRaisesIn(walk.prefix)
    /\ Height(Namespace, walk.prefix) <= RecursionLimit

NoRepeatedCall ==
    \A i \in 1..Len(walk.calls) : \A j \in 1..Len(walk.calls) :
        i # j => walk.calls[i] # walk.calls[j]

\* C23: the collector neither suppresses nor retries.  A listing that
\* raises, at the top level or at any depth, ends the call with that error
\* and without a list, the failed listing being the last one asked for; a
\* call for a run without a row ends the same way at its first listing; a
\* list exists only once the call has returned; no prefix is listed twice.
C23_ErrorsPropagate ==
    /\ (Finished /\ MeetsFailure) =>
          /\ walk.status = "raised"
          /\ walk.exc = [type |-> "RuntimeError", msg |-> "S3 unavailable"]
          /\ walk.calls[Len(walk.calls)] = ListCall(1, FailingPrefix)
    /\ (Finished /\ walk.run \notin dbRuns) =>
          /\ walk.status = "raised"
          /\ walk.exc.type = "ValueError"
          /\ Len(walk.calls) = 1
    /\ (walk.status # "returned") => walk.result = None
    /\ NoRepeatedCall

\* the third listing, two levels down, raised after files had been collected
C23_Witness ==
    /\ Finished
    /\ MeetsFailure
    /\ walk.prefix = RootPrefix
    /\ FailingPrefix = ChainDir(2)
    /\ Len(walk.calls) = 3
    /\ Namespace[RootPrefix][1].type = "file"
    /\ Namespace[ChainDir(1)][1].type = "file"
    /\ walk.result = None

\* the first listing raised
C23_WitnessTopLevel ==
    /\ Finished
    /\ MeetsFailure
    /\ FailingPrefix = walk.prefix
    /\ walk.calls = << ListCall(1, walk.prefix) >>

---------------------------------------------------------------------------
OnTree == walk.run = 1 /\ ~Cyclic(Namespace)
OnCycle == walk.run = 1 /\ Cyclic(Namespace)

ListedEachOnce ==
    /\ NoRepeatedCall
    /\ {c.path : c \in SeqToSet(walk.calls)} = Directories(Namespace, walk.prefix)

\* C24 (as stated): over a tree-shaped namespace collect terminates after
\* listing each directory exactly once; over a listing with a cycle the
\* traversal never terminates.
C24_CycleNeverTerminates ==
    /\ (walk.status # "idle" /\ OnTree) ~> (walk.status = "returned" /\ ListedEachOnce)
    /\ [](OnCycle => ~Finished)

\* C24 (amended): every call of collect ends, and the recursion never is
\* deeper than the frames the interpreter grants.  Over a tree that fits
\* into them it returns after listing each directory exactly once; over a
\* listing with a cycle, which nothing in the collector detects, and over
\* a tree nested deeper, it ends by raising RecursionError without a list.
C24_EndsWithinRecursionLimit ==
    /\ <>Finished
    /\ [](Depth <= RecursionLimit)
    /\ []((Finished /\ OnTree /\ Height(Namespace, walk.prefix) <= RecursionLimit) =>
             (walk.status = "returned" /\ ListedEachOnce))
    /\ []((Finished /\ OnTree /\ Height(Namespace, walk.prefix) > RecursionLimit) =>
             (walk.status = "raised" /\ walk.exc.type = "RecursionError"))
    /\ []((Finished /\ OnCycle) =>
             (walk.status = "raised" /\ walk.exc.type = "RecursionError"
                 /\ walk.result = None))

\* a directory that lists itself was listed again and again until the
\* interpreter raised RecursionError
C24_Witness ==
    /\ Finished
    /\ OnCycle
    /\ walk.prefix = RootPrefix
    /\ Lists(Namespace[ChainDir(1)], DirName(1))
    /\ walk.exc.type = "RecursionError"
    /\ ~NoRepeatedCall

\* a tree with three directories below the root, each listed once
C24_WitnessTree ==
    /\ Finished
    /\ OnTree
    /\ walk.status = "returned"
    /\ ListedEachOnce
    /\ Len(walk.calls) = 3

---------------------------------------------------------------------------
MiB == 1024 * 1024

\* C25: for an estimate over at least one resolved run the message is
\* present if and only if can_download is false, and the message states
\* the aggregate size in bytes divided by 1024*1024, rounded down to a
\* whole number, next to the fixed limit of 500.
C25_MessageIffOverCap ==
    (IsEstimate /\ resp.estimate # None /\ Resolved # {}) =>
        LET est == resp.estimate[1]
            whole == CHOOSE n \in 0..(est.estimated_size_bytes \div MiB + 1) :
                        n * MiB <= est.estimated_size_bytes
                            /\ est.estimated_size_bytes < (n + 1) * MiB
        IN /\ (est.message # None) <=> ~est.can_download
           /\ (est.message # None) =>
                 est.message[1] = "Estimated size (" \o ToString(whole)
                                     \o "MB) exceeds limit (500MB)"

\* one byte over the cap: the message states 500MB against the limit 500MB
C25_Witness ==
    /\ IsEstimate
    /\ resp.estimate # None
    /\ Len(req.order) = 2
    /\ resp.estimate[1].estimated_size_bytes = 500 * MiB + 1
    /\ ~resp.estimate[1].can_download
    /\ resp.estimate[1].message = Some("Estimated size (500MB) exceeds limit (500MB)")

\* within the cap: no message
C25_WitnessWithin ==
    /\ IsEstimate
    /\ resp.estimate # None
    /\ resp.estimate[1].estimated_size_bytes = 500 * MiB
    /\ resp.estimate[1].can_download
    /\ resp.estimate[1].message = None

---------------------------------------------------------------------------
\* C27: when batch_download_v2 completes, every resolved run's id appears
\* in exactly one of manifest.runs and manifest.errors, once, whatever
\* listing, loading and snapshot failures occurred; no other id appears.
C27_RunsOrErrorsPartition ==
    IsDownload =>
        /\ \A r \in Resolved :
              Len(EntriesOf(resp.manifest.runs, r)) + Len(EntriesOf(resp.manifest.errors, r)) = 1
        /\ IdsOf(resp.manifest.runs) \cap IdsOf(resp.manifest.errors) = {}
        /\ IdsOf(resp.manifest.runs) \cup IdsOf(resp.manifest.errors) = Resolved

\* two runs: one whose load fails is in errors only, one whose snapshot
\* fails is in runs only
C27_Witness ==
    /\ IsDownload
    /\ Len(req.order) = 2
    /\ \E r \in Resolved : \E q \in Resolved :
          /\ LoadFails(r)
          /\ ~CollectFails(q) /\ ~LoadFails(q) /\ SnapshotFails(q)
          /\ IdsOf(resp.manifest.errors) = {r}
          /\ IdsOf(resp.manifest.runs) = {q}

\* a run whose listing fails is in errors only
C27_WitnessListing ==
    /\ IsDownload
    /\ \E r \in Resolved : CollectFails(r) /\ r \in IdsOf(resp.manifest.errors)

---------------------------------------------------------------------------
(* The YAML port importer (app/services/yaml_importer.py)                  *)

MaxImports == 3      \* invocations of import_from_run that are explored

\* the run that is imported and its Process rows, in query order
ImportRunId == 1
ImportProcesses == << [id |-> 1, name |-> "a"], [id |-> 2, name |-> "b"] >>

\* a connection of protocol.yaml: input is the source [process, port],
\* output the target [process, port]
ConnDef(source, target) == [input |-> source, output |-> target]
ConnDefs == {ConnDef(<< "a", "q" >>, << "b", "p" >>), ConnDef(<< "a" >>, << "b", "p" >>)}

\* protocol.yaml and manipulate.yaml: the type of each operation id, the
\* input and output port ids of the one process definition "T", the
\* connections
Yamls ==
    {[types |-> ("a" :> Some("T")) @@ ("b" :> tb),
      defs |-> ("T" :> [input |-> ins, output |-> outs]),
      connections |-> conns] :
        tb \in {None, Some("T"), Some("U")},
        ins \in {<< >>, << "p" >>, << "p", "p" >>},
        outs \in {<< >>, << "q" >>},
        conns \in SeqsOver(ConnDefs, 2)}

PortRow(id, process_id, port_type, port_name) ==
    [id |-> id, process_id |-> process_id, port_type |-> port_type, port_name |-> port_name]
ConnRow(id, run_id, source_port_id, target_port_id) ==
    [id |-> id, run_id |-> run_id, source_port_id |-> source_port_id,
     target_port_id |-> target_port_id]

\* the rows a query of the session sees: the committed and flushed rows; a
\* session that autoflushes flushes the added rows before every query
SeenPorts(st) == IF st.autoflush THEN st.ports \cup st.newPorts ELSE st.ports
SeenConns(st) == IF st.autoflush THEN st.conns \cup st.newConns ELSE st.conns

\* session.query(Port).filter(process_id, port_type, port_name).first()
FirstPort(st, process_id, port_type, port_name) ==
    LET found == {r \in SeenPorts(st) : /\ r.process_id = process_id
                                         /\ r.port_type = port_type
                                         /\ r.port_name = port_name}
    IN IF found = {} THEN None
       ELSE Some(CHOOSE r \in found : \A q \in found : r.id <= q.id)

\* session.query(PortConnection).filter(run_id, source, target).first()
FirstConn(st, run_id, source_port_id, target_port_id) ==
    LET found == {r \in SeenConns(st) : /\ r.run_id = run_id
                                         /\ r.source_port_id = source_port_id
                                         /\ r.target_port_id = target_port_id}
    IN IF found = {} THEN None
       ELSE Some(CHOOSE r \in found : \A q \in found : r.id <= q.id)

\* the loop over the port definitions of one type of one process
\* st is the session and the counters: [autoflush, ports, newPorts, conns,
\* newConns, created, skipped, exc]
RECURSIVE ImportPorts(_, _, _, _, _)
ImportPorts(st, process, port_defs, port_type, skip_existing) ==
    IF port_defs = << >> \/ st.exc # None THEN st
    ELSE LET port_name == Head(port_defs)
             existing_port == FirstPort(st, process.id, port_type, port_name)
         IN IF existing_port # None
            THEN IF skip_existing
                 THEN ImportPorts([st EXCEPT !.skipped = @ + 1], process,
                                  Tail(port_defs), port_type, skip_existing)
                 ELSE [st EXCEPT !.exc = Some("ValueError")]
            ELSE ImportPorts(
                     [st EXCEPT !.newPorts = @ \cup
                                   {PortRow(Cardinality(st.ports \cup st.newPorts) + 1,
                                            process.id, port_type, port_name)},
                                !.created = @ + 1],
                     process, Tail(port_defs), port_type, skip_existing)

\* _import_ports_for_process: the counters start at 0 for each process
_import_ports_for_process(st, process, yaml, skip_existing) ==
    LET process_type == IF process.name \in DOMAIN yaml.types
                        THEN yaml.types[process.name] ELSE None
    IN IF process_type = None THEN st
       ELSE IF process_type[1] \notin DOMAIN yaml.defs THEN st
       ELSE LET process_def == yaml.defs[process_type[1]]
            IN ImportPorts(ImportPorts(st, process, process_def.input, "input",
                                       skip_existing),
                           process, process_def.output, "output", skip_existing)

RECURSIVE ImportProcessPorts(_, _, _, _)
ImportProcessPorts(st, processes, yaml, skip_existing) ==
    IF processes = << >> \/ st.exc # None THEN st
    ELSE ImportProcessPorts(
             _import_ports_for_process(st, Head(processes), yaml, skip_existing),
             Tail(processes), yaml, skip_existing)

\* process_map = {p.name: p for p in processes}
ProcessNamed(processes, name) ==
    LET at == {i \in 1..Len(processes) : processes[i].name = name}
    IN IF at = {} THEN None
       ELSE Some(processes[CHOOSE i \in at : \A j \in at : j <= i])

\* _import_connections: the loop over the connections of protocol.yaml
\* the counters created and skipped of st count connections here
RECURSIVE _import_connections(_, _, _, _, _)
_import_connections(st, run_id, processes, connections, skip_existing) ==
    IF connections = << >> \/ st.exc # None THEN st
    ELSE LET conn_def == Head(connections)
             rest == Tail(connections)
         IN IF Len(conn_def.input) < 2 \/ Len(conn_def.output) < 2
            THEN _import_connections(st, run_id, processes, rest, skip_existing)
            ELSE LET source_process == ProcessNamed(processes, conn_def.input[1])
                     target_process == ProcessNamed(processes, conn_def.output[1])
                 IN IF source_process = None \/ target_process = None
                    THEN _import_connections(st, run_id, processes, rest, skip_existing)
                    ELSE LET source_port == FirstPort(st, source_process[1].id, "output",
                                                      conn_def.input[2])
                             target_port == FirstPort(st, target_process[1].id, "input",
                                                      conn_def.output[2])
                         IN IF source_port = None \/ target_port = None
                            THEN _import_connections(st, run_id, processes, rest,
                                                     skip_existing)
                            ELSE IF FirstConn(st, run_id, source_port[1].id,
                                              target_port[1].id) # None
                            THEN IF skip_existing
                                 THEN _import_connections([st EXCEPT !.skipped = @ + 1],
                                          run_id, processes, rest, skip_existing)
                                 ELSE [st EXCEPT !.exc = Some("ValueError")]
                            ELSE _import_connections(
                                     [st EXCEPT !.newConns = @ \cup
                                         {ConnRow(Cardinality(st.conns \cup st.newConns) + 1,
                                                  run_id, source_port[1].id,
                                                  target_port[1].id)},
                                                !.created = @ + 1],
                                     run_id, processes, rest, skip_existing)

NewSession(autoflush, ports, conns) ==
    [autoflush |-> autoflush, ports |-> ports, newPorts |-> {}, conns |-> conns,
     newConns |-> {}, created |-> 0, skipped |-> 0, exc |-> None]

PortKey(r) == << r.process_id, r.port_type, r.port_name >>

\* the Port table keeps (process_id, port_type, port_name) unique: flushing
\* two rows of one key fails
UniquePorts(rows) == \A r, q \in rows : PortKey(r) = PortKey(q) => r = q

ImportReport(skip_existing, ps, cs, exc) ==
    [skip_existing |-> skip_existing, exc |-> exc,
     ports_created |-> ps.created, ports_skipped |-> ps.skipped,
     connections_created |-> cs.created, connections_skipped |-> cs.skipped]

\* import_from_run, given the session after the ports loop (ps) and after
\* the connections loop (cs): commits, or raises and leaves the tables
Committed(m, skip_existing, ps, cs) ==
    IF cs.exc # None
    THEN [m EXCEPT !.reports = Append(@, ImportReport(skip_existing, ps, cs, cs.exc))]
    ELSE IF ~UniquePorts(cs.ports \cup cs.newPorts)
    THEN [m EXCEPT !.reports =
                      Append(@, ImportReport(skip_existing, ps, cs, Some("IntegrityError")))]
    ELSE [m EXCEPT !.ports = cs.ports \cup cs.newPorts,
                   !.conns = cs.conns \cup cs.newConns,
                   !.reports = Append(@, ImportReport(skip_existing, ps, cs, None))]

ConnectionsImported(m, skip_existing, ps) ==
    Committed(m, skip_existing, ps,
              _import_connections([ps EXCEPT !.created = 0, !.skipped = 0], ImportRunId,
                                  ImportProcesses, m.yaml.connections, skip_existing))

import_from_run(m, skip_existing) ==
    ConnectionsImported(m, skip_existing,
        ImportProcessPorts(NewSession(m.autoflush, m.ports, m.conns), ImportProcesses,
                           m.yaml, skip_existing))

\* one invocation of the importer on the run, the YAML files unchanged
ImportFromRun ==
    /\ Len(imp.reports) < MaxImports
    /\ \E skip_existing \in BOOLEAN : imp' = import_from_run(imp, skip_existing)
    /\ UNCHANGED << exportVars, walk, exports, procOps, boot >>

NextImport == ImportFromRun

\* the export subsystem with no run and no request
ExportsAtRest ==
    /\ dbRuns = {}
    /\ store = EmptyStore
    /\ hal = [r \in RunIds |-> NoStorage]
    /\ tempFiles = {}
    /\ req = NoRequest
    /\ resp = NoResponse
    /\ dumpOk = 0
    /\ lastEstimate = None

\* any session setting, any of the YAML files, empty Port and
\* PortConnection tables
InitImport ==
    /\ ExportsAtRest
    /\ walk = NoWalk
    /\ exports = NoExports
    /\ procOps = NoProcOps
    /\ boot = NoBoot
    /\ \E autoflush \in BOOLEAN, yaml \in Yamls :
          imp = [NoImport EXCEPT !.autoflush = autoflush, !.yaml = yaml]

SpecImport == InitImport /\ [][NextImport]_vars

---------------------------------------------------------------------------
(* Claims about the YAML port importer                                     *)

LastReport(m) == m.reports[Len(m.reports)]

\* an invocation with skip_existing=True that follows a committed invocation
\* with skip_existing=True
SecondInvocation ==
    /\ Len(imp.reports) >= 1
    /\ Len(imp'.reports) = Len(imp.reports) + 1
    /\ LastReport(imp).skip_existing /\ LastReport(imp).exc = None
    /\ LastReport(imp').skip_existing

\* it creates nothing, reports what the invocation before handled as
\* skipped and leaves both tables as they were
CreatesNothing ==
    /\ LastReport(imp').exc = None
    /\ LastReport(imp').ports_created = 0
    /\ LastReport(imp').connections_created = 0
    /\ LastReport(imp').ports_skipped =
           LastReport(imp).ports_created + LastReport(imp).ports_skipped
    /\ LastReport(imp').connections_skipped =
           LastReport(imp).connections_created + LastReport(imp).connections_skipped
    /\ imp'.ports = imp.ports
    /\ imp'.conns = imp.conns

\* C22: import_from_run with skip_existing=True is idempotent: a second
\* invocation with unchanged YAML creates no port and no connection, reports
\* the existing ones as skipped and leaves the Port and PortConnection
\* tables unchanged; no two Port rows ever share (process_id, port_type,
\* port_name)
C22_SecondInvocationCreatesNothing ==
    /\ [][SecondInvocation => CreatesNothing]_vars
    /\ [](UniquePorts(imp.ports))

\* the same under a session that autoflushes
C22_IdempotentWithAutoflush ==
    /\ [][(SecondInvocation /\ imp.autoflush) => CreatesNothing]_vars
    /\ [](UniquePorts(imp.ports))

\* a session that does not autoflush: the first invocation committed the
\* ports and no connection, the second one created the connection
C22_WitnessLateConnection ==
    /\ ~imp.autoflush
    /\ Len(imp.reports) = 2
    /\ imp.reports[1].skip_existing /\ imp.reports[1].exc = None
    /\ imp.reports[1].ports_created = 4 /\ imp.reports[1].connections_created = 0
    /\ imp.reports[2].skip_existing /\ imp.reports[2].exc = None
    /\ imp.reports[2].ports_created = 0 /\ imp.reports[2].connections_created = 1
    /\ Cardinality(imp.conns) = 1

---------------------------------------------------------------------------
(* Schema bootstrap at startup (app/init_db.py, app/main.py)               *)

REQUIRED_TABLES ==
    {"users", "projects", "runs", "processes", "operations", "edges", "ports",
     "port_connections", "process_operations"}

\* the tables a database file may hold at startup: none, all, all but one,
\* and a table that is not required
StartTables ==
    {{}, REQUIRED_TABLES, REQUIRED_TABLES \ {"process_operations"},
     REQUIRED_TABLES \cup {"alembic_version"}, {"alembic_version"}}

\* the tables Base.metadata declares
DeclaredTables == {REQUIRED_TABLES, REQUIRED_TABLES \ {"process_operations"}}

\* check_database_file
check_database_file(b) ==
    [exists |-> b.file # "missing", is_empty |-> b.file # "present"]

\* check_tables: the query of sqlite_master, or the result left by the
\* except clause when the query raises
check_tables(b, raises) ==
    IF raises
    THEN [existing_tables |-> {}, missing_tables |-> REQUIRED_TABLES, all_present |-> FALSE]
    ELSE [existing_tables |-> b.tables,
          missing_tables |-> REQUIRED_TABLES \ b.tables,
          all_present |-> (REQUIRED_TABLES \ b.tables) = {}]

\* Step 1 of ensure_database_ready: the file status decides the path
BootCheckFile ==
    /\ boot.pc = "start"
    /\ LET file_status == check_database_file(boot)
           action == IF ~file_status.exists THEN Some("create_new")
                     ELSE IF file_status.is_empty THEN Some("initialize_empty")
                     ELSE None
       IN boot' = [boot EXCEPT !.summary.file_status = Some(file_status),
                               !.summary.action = action,
                               !.pc = IF action # None THEN "create" ELSE "check"]
    /\ UNCHANGED << exportVars, walk, imp, exports, procOps >>

\* create_tables: create_all adds the declared tables that are missing and
\* keeps the others; an error of the engine propagates to the caller
BootCreateTables ==
    /\ boot.pc \in {"create", "create_missing"}
    /\ \E ok \in BOOLEAN :
          boot' = IF ok
                  THEN [boot EXCEPT !.tables = @ \cup boot.declared,
                                    !.file = "present",
                                    !.pc = IF boot.pc = "create" THEN "check_created"
                                           ELSE "recheck"]
                  ELSE [boot EXCEPT !.pc = "raised"]
    /\ UNCHANGED << exportVars, walk, imp, exports, procOps >>

\* check_tables at its three call sites: after creating a new database the
\* result decides success and the function returns; on an existing one a
\* missing table sends it to create_tables; the check after that is stored
BootCheckTables ==
    /\ boot.pc \in {"check_created", "check", "recheck"}
    /\ \E raises \in BOOLEAN :
          LET table_status == check_tables(boot, raises)
          IN boot' =
               IF boot.pc = "check_created"
               THEN [boot EXCEPT !.summary.table_status = Some(table_status),
                                 !.summary.success = table_status.all_present,
                                 !.pc = "returned"]
               ELSE IF boot.pc = "check" /\ ~table_status.all_present
               THEN [boot EXCEPT !.summary.table_status = Some(table_status),
                                 !.summary.action = Some("create_missing"),
                                 !.pc = "create_missing"]
               ELSE [boot EXCEPT !.summary.table_status = Some(table_status),
                                 !.pc = "migrate"]
    /\ UNCHANGED << exportVars, walk, imp, exports, procOps >>

\* Step 3: run_custom_migrations (columns only), then the summary is
\* completed and returned; an error of engine.connect propagates
BootMigrate ==
    /\ boot.pc = "migrate"
    /\ \E ok \in BOOLEAN :
          boot' = IF ok
                  THEN [boot EXCEPT !.summary.migrations_run = TRUE,
                                    !.summary.action =
                                        IF @ = None THEN Some("none") ELSE @,
                                    !.summary.success = TRUE,
                                    !.pc = "returned"]
                  ELSE [boot EXCEPT !.pc = "raised"]
    /\ UNCHANGED << exportVars, walk, imp, exports, procOps >>

\* lifespan: logs an error for a summary without success unless its action
\* is 'none', then serves
Lifespan ==
    /\ boot.pc = "returned"
    /\ boot' = [boot EXCEPT !.logged = ~boot.summary.success
                                        /\ boot.summary.action # Some("none"),
                            !.pc = "serving"]
    /\ UNCHANGED << exportVars, walk, imp, exports, procOps >>

NextBoot ==
    \/ BootCheckFile
    \/ BootCreateTables
    \/ BootCheckTables
    \/ BootMigrate
    \/ Lifespan

\* startup on any database file: missing, empty, or holding some tables
InitBoot ==
    /\ ExportsAtRest
    /\ walk = NoWalk
    /\ imp = NoImport
    /\ exports = NoExports
    /\ procOps = NoProcOps
    /\ \E file \in {"missing", "empty", "present"}, tables \in StartTables,
          declared \in DeclaredTables :
          /\ file # "present" => tables = {}
          /\ boot = [NoBoot EXCEPT !.pc = "start", !.file = file, !.tables = tables,
                                   !.declared = declared]

SpecBoot == InitBoot /\ [][NextBoot]_vars

---------------------------------------------------------------------------
(* Claims about the schema bootstrap                                       *)

BootReturned == boot.pc \in {"returned", "serving"}

\* C29: whenever ensure_database_ready returns a summary with success=True,
\* every table of REQUIRED_TABLES exists (table_status.all_present), on every
\* path through the function
C29_SuccessImpliesAllPresent ==
    (BootReturned /\ boot.summary.success) =>
        /\ boot.summary.table_status[1].all_present
        /\ REQUIRED_TABLES \subseteq boot.tables

\* the same on the path of a new or empty database file only
C29_SuccessOfNewDatabase ==
    (BootReturned /\ boot.summary.success
        /\ boot.summary.action \in {Some("create_new"), Some("initialize_empty")}) =>
        /\ boot.summary.table_status[1].all_present
        /\ REQUIRED_TABLES \subseteq boot.tables

\* an existing database whose missing table create_all did not add: the
\* summary says success, the stored check says a table is missing, and the
\* startup logs nothing
C29_WitnessSuccessWithMissingTable ==
    /\ boot.pc = "serving"
    /\ boot.summary.success
    /\ boot.summary.action = Some("create_missing")
    /\ boot.summary.table_status[1].missing_tables = {"process_operations"}
    /\ ~boot.logged

---------------------------------------------------------------------------
(* ProcessOperation endpoints (app/api/route/process_operations.py)        *)
(* The handlers are plain functions: the framework runs each request on a  *)
(* worker thread with a session of its own, so requests interleave between *)
(* their queries and their commit.                                         *)

MaxPoRequests == 3   \* requests started in one behaviour
MaxPoId == 2         \* ids a request may name

KnownProcesses == {1}
KnownOperations == {1, 2}
PoIds == 1..MaxPoId

PoRow(id, process_id, operation_id) ==
    [id |-> id, process_id |-> process_id, operation_id |-> operation_id]

\* session.query(ProcessOperation).filter(process_id, operation_id)
PairRows(rows, process_id, operation_id) ==
    {r \in rows : r.process_id = process_id /\ r.operation_id = operation_id}

Answered(r, status, detail) ==
    [r EXCEPT !.pc = "done", !.status = status, !.detail = detail]

\* a request arrives and is given to an idle worker
PoArrive(w) ==
    /\ procOps.reqs[w].pc = "idle"
    /\ procOps.started < MaxPoRequests
    /\ \E r \in {[NoPoRequest EXCEPT !.op = "create", !.pc = "check",
                                     !.process_id = p, !.operation_id = o] :
                     p \in PoIds, o \in 1..(MaxPoId + 1)}
             \cup {[NoPoRequest EXCEPT !.op = "delete", !.pc = "check", !.id = i] :
                     i \in PoIds} :
          procOps' = [procOps EXCEPT !.reqs[w] = r, !.started = @ + 1]
    /\ UNCHANGED << exportVars, walk, imp, exports, boot >>

\* create_process_operation up to the duplicate check: 404 for a missing
\* process or operation, 409 for a pair the query finds
CreateCheck(w) ==
    /\ procOps.reqs[w].op = "create" /\ procOps.reqs[w].pc = "check"
    /\ LET r == procOps.reqs[w]
           existing == PairRows(procOps.rows, r.process_id, r.operation_id)
       IN procOps' =
            [procOps EXCEPT !.reqs[w] =
                IF r.process_id \notin KnownProcesses
                THEN Answered(r, 404, "Process not found")
                ELSE IF r.operation_id \notin KnownOperations
                THEN Answered(r, 404, "Operation not found")
                ELSE IF existing # {}
                THEN Answered([r EXCEPT !.existed = TRUE], 409,
                              "ProcessOperation already exists")
                ELSE [r EXCEPT !.pc = "commit"]]
    /\ UNCHANGED << exportVars, walk, imp, exports, boot >>

\* session.add, session.commit: the row is inserted; if the table has a
\* unique constraint on the pair and the pair is there by now, the commit
\* raises IntegrityError, which nothing catches
CreateCommit(w) ==
    /\ procOps.reqs[w].op = "create" /\ procOps.reqs[w].pc = "commit"
    /\ LET r == procOps.reqs[w]
           existing == PairRows(procOps.rows, r.process_id, r.operation_id)
       IN procOps' =
            IF procOps.unique /\ existing # {}
            THEN [procOps EXCEPT !.reqs[w] =
                     Answered([r EXCEPT !.existed = TRUE], 500, "Internal Server Error")]
            ELSE [procOps EXCEPT !.rows = @ \cup {PoRow(procOps.nextId, r.process_id,
                                                        r.operation_id)},
                                 !.nextId = @ + 1,
                                 !.reqs[w] = Answered([r EXCEPT !.id = procOps.nextId,
                                                                !.existed = existing # {},
                                                                !.changed = TRUE],
                                                      200, "")]
    /\ UNCHANGED << exportVars, walk, imp, exports, boot >>

\* delete_process_operation up to the lookup by id
DeleteCheck(w) ==
    /\ procOps.reqs[w].op = "delete" /\ procOps.reqs[w].pc = "check"
    /\ LET r == procOps.reqs[w]
       IN procOps' =
            [procOps EXCEPT !.reqs[w] =
                IF {q \in procOps.rows : q.id = r.id} = {}
                THEN Answered(r, 404, "ProcessOperation not found")
                ELSE [r EXCEPT !.pc = "commit"]]
    /\ UNCHANGED << exportVars, walk, imp, exports, boot >>

\* session.delete, session.commit; a row that another request has deleted
\* in between makes the flush fail
DeleteCommit(w) ==
    /\ procOps.reqs[w].op = "delete" /\ procOps.reqs[w].pc = "commit"
    /\ LET r == procOps.reqs[w]
           found == {q \in procOps.rows : q.id = r.id}
       IN procOps' =
            IF found = {}
            THEN [procOps EXCEPT !.reqs[w] = Answered(r, 500, "Internal Server Error")]
            ELSE [procOps EXCEPT !.rows = @ \ found,
                                 !.reqs[w] = Answered([r EXCEPT !.changed = TRUE], 200,
                                                      "deleted successfully")]
    /\ UNCHANGED << exportVars, walk, imp, exports, boot >>

\* the response is sent and the worker is free again
PoRespond(w) ==
    /\ procOps.reqs[w].pc = "done"
    /\ procOps' = [procOps EXCEPT !.reqs[w] = NoPoRequest]
    /\ UNCHANGED << exportVars, walk, imp, exports, boot >>

NextProcOps ==
    \E w \in Workers :
        \/ PoArrive(w)
        \/ CreateCheck(w)
        \/ CreateCommit(w)
        \/ DeleteCheck(w)
        \/ DeleteCommit(w)
        \/ PoRespond(w)

\* an empty table, with or without a unique constraint on the pair
InitProcOps ==
    /\ ExportsAtRest
    /\ walk = NoWalk
    /\ imp = NoImport
    /\ exports = NoExports
    /\ boot = NoBoot
    /\ \E unique \in BOOLEAN : procOps = [NoProcOps EXCEPT !.unique = unique]

SpecProcOps == InitProcOps /\ [][NextProcOps]_vars

---------------------------------------------------------------------------
(* Claims about the ProcessOperation endpoints                             *)

UniquePairs(rows) ==
    \A r, q \in rows :
        (r.process_id = q.process_id /\ r.operation_id = q.operation_id) => r = q

\* C28: after any interleaving of concurrent create_process_operation and
\* delete_process_operation requests no two ProcessOperation rows share the
\* same (process_id, operation_id); a create for a pair that already exists
\* returns 409 and leaves the table unchanged
C28_PairsStayUnique ==
    /\ UniquePairs(procOps.rows)
    /\ \A w \in Workers :
          (procOps.reqs[w].op = "create" /\ procOps.reqs[w].pc = "done"
              /\ procOps.reqs[w].existed) =>
              (procOps.reqs[w].status = 409 /\ ~procOps.reqs[w].changed)

\* two creates of one pair that both passed the duplicate check: both
\* committed and the table holds the pair twice
C28_WitnessDuplicatePair ==
    /\ ~procOps.unique
    /\ ~UniquePairs(procOps.rows)
    /\ \A w \in Workers : procOps.reqs[w].pc = "done" /\ procOps.reqs[w].status = 200

\* with a unique constraint the second commit fails: the pair exists and
\* the answer is 500, not 409
C28_WitnessIntegrityError ==
    /\ procOps.unique
    /\ \E w \in Workers :
          /\ procOps.reqs[w].op = "create" /\ procOps.reqs[w].pc = "done"
          /\ procOps.reqs[w].existed /\ procOps.reqs[w].status = 500

---------------------------------------------------------------------------
(* Exports served at the same time                                         *)
(* Each request runs on a worker thread; between its steps on the          *)
(* temporary directory the other requests take theirs.                     *)

MaxExports == 3      \* export requests started in one behaviour

ExportKinds == {"dump", "batch_download", "batch_dump"}

\* the prefix of the temp file: run_<id>_ in download_sql_dump, the
\* generator's default in _generate_metadata_dump
TempPrefix(r) == IF r.kind = "dump" THEN SingleTempPrefix(r.run_id) ELSE BatchTempPrefix

\* the bytes at a path were last written by the request with this serial
WrittenAt(written, f) == {e.by : e \in {x \in written : x.path = f}}
Write(written, f, serial) ==
    {x \in written : x.path # f} \cup {[path |-> f, by |-> serial]}

\* a request arrives: a single dump of a run, or a batch over one or more
\* runs that are dumped one after the other
ExportArrive(w) ==
    /\ exports.reqs[w].pc = "idle"
    /\ exports.started < MaxExports
    /\ \E kind \in ExportKinds, run_id \in RunIds, runs \in 1..MaxReqLen :
          /\ kind = "dump" => runs = 1
          /\ exports' = [exports EXCEPT
                !.started = @ + 1,
                !.reqs[w] = [NoExport EXCEPT !.kind = kind, !.pc = "create",
                                             !.serial = exports.started + 1,
                                             !.run_id = run_id, !.runs = runs]]
    /\ UNCHANGED << dbRuns, store, hal, req, resp, dumpOk, lastEstimate, tempFiles >>
    /\ UNCHANGED << walk, imp, procOps, boot >>

\* after one run of a batch: the next run, or the ZIP is answered
NextRun(r) ==
    IF r.runs > 1 THEN [r EXCEPT !.runs = @ - 1, !.path = None, !.pc = "create"]
    ELSE [r EXCEPT !.runs = 0, !.path = None, !.pc = "done", !.status = 200]

\* tempfile.NamedTemporaryFile(delete=False, ...); temp_file.close()
\* when it raises, the single dump answers 500 (no temp_path yet) and a
\* batch records the run's error
ExportCreate(w) ==
    /\ exports.reqs[w].pc = "create"
    /\ \E n \in TempNames :
          LET r == exports.reqs[w]
              made == NamedTemporaryFile(tempFiles, TempPrefix(r), n)
          IN IF made.ok
             THEN /\ tempFiles' = tempFiles \cup {made.val}
                  /\ exports' = [exports EXCEPT
                        !.reqs[w] = [r EXCEPT !.path = Some(made.val), !.pc = "write"],
                        !.written = {x \in @ : x.path # made.val}]
             ELSE /\ tempFiles' = tempFiles
                  /\ exports' = [exports EXCEPT !.reqs[w] =
                        IF r.kind = "dump" THEN [r EXCEPT !.pc = "done", !.status = 500]
                        ELSE NextRun(r)]
    /\ UNCHANGED << dbRuns, store, hal, req, resp, dumpOk, lastEstimate >>
    /\ UNCHANGED << walk, imp, procOps, boot >>

\* sqlite3.connect(temp_path), the tables and rows, commit, close; a failure
\* goes to the except clause (single dump) or the finally clause (batch)
ExportWrite(w) ==
    /\ exports.reqs[w].pc = "write"
    /\ \E ok \in BOOLEAN :
          LET r == exports.reqs[w]
          IN exports' =
               IF ok
               THEN [exports EXCEPT !.written = Write(@, r.path[1], r.serial),
                                    !.reqs[w] = [r EXCEPT !.pc = "read"]]
               ELSE [exports EXCEPT !.reqs[w] = [r EXCEPT !.pc = "cleanup",
                                                          !.status = 500]]
    /\ UNCHANGED << dbRuns, store, hal, req, resp, dumpOk, lastEstimate, tempFiles >>
    /\ UNCHANGED << walk, imp, procOps, boot >>

\* the file is read back: by open(temp_path, 'rb') in a batch, by the
\* FileResponse of a single dump, which leaves the file where it is
ExportRead(w) ==
    /\ exports.reqs[w].pc = "read"
    /\ LET r == exports.reqs[w]
           read == [r EXCEPT !.got = @ \cup WrittenAt(exports.written, r.path[1])]
       IN exports' = [exports EXCEPT !.reqs[w] =
             IF r.path[1] \notin tempFiles
             THEN [r EXCEPT !.pc = IF r.kind = "dump" THEN "done" ELSE "cleanup",
                            !.status = 500]
             ELSE IF r.kind = "dump" THEN [read EXCEPT !.pc = "done", !.status = 200]
             ELSE [read EXCEPT !.pc = "cleanup"]]
    /\ UNCHANGED << dbRuns, store, hal, req, resp, dumpOk, lastEstimate, tempFiles >>
    /\ UNCHANGED << walk, imp, procOps, boot >>

\* if os.path.exists(temp_path): os.unlink(temp_path), in the finally
\* clause of a batch run and in the except clause of a single dump
ExportCleanup(w) ==
    /\ exports.reqs[w].pc = "cleanup"
    /\ LET r == exports.reqs[w]
       IN /\ tempFiles' = DumpFinally(tempFiles, r.path[1])
          /\ exports' = [exports EXCEPT !.reqs[w] =
                IF r.kind = "dump" THEN [r EXCEPT !.path = None, !.pc = "done"]
                ELSE NextRun(r)]
    /\ UNCHANGED << dbRuns, store, hal, req, resp, dumpOk, lastEstimate >>
    /\ UNCHANGED << walk, imp, procOps, boot >>

\* the response has been sent
ExportRespond(w) ==
    /\ exports.reqs[w].pc = "done"
    /\ exports' = [exports EXCEPT !.reqs[w] = NoExport]
    /\ UNCHANGED << dbRuns, store, hal, req, resp, dumpOk, lastEstimate, tempFiles >>
    /\ UNCHANGED << walk, imp, procOps, boot >>

NextExports ==
    \E w \in Workers :
        \/ ExportArrive(w)
        \/ ExportCreate(w)
        \/ ExportWrite(w)
        \/ ExportRead(w)
        \/ ExportCleanup(w)
        \/ ExportRespond(w)

InitExports ==
    /\ ExportsAtRest
    /\ walk = NoWalk
    /\ imp = NoImport
    /\ procOps = NoProcOps
    /\ boot = NoBoot
    /\ exports = NoExports

SpecExports == InitExports /\ [][NextExports]_vars

---------------------------------------------------------------------------
(* Claims about concurrent exports                                         *)

\* a request between the creation of its temp file and the end of its use
InFlight(w) == exports.reqs[w].pc \in {"write", "read", "cleanup"}

\* C26: no two in-flight exports (single dump, batch download, batch dump)
\* use the same temp path: the paths of in-flight requests differ, each
\* exists until its own request unlinks it, and a request reads back only
\* what it wrote itself
C26_DistinctTempPaths ==
    /\ \A w, v \in Workers :
          (w # v /\ InFlight(w) /\ InFlight(v)) =>
              exports.reqs[w].path # exports.reqs[v].path
    /\ \A w \in Workers : InFlight(w) => exports.reqs[w].path[1] \in tempFiles
    /\ \A w \in Workers : exports.reqs[w].got \subseteq {exports.reqs[w].serial}

\* two batch exports in flight at once, each holding a temp file of the
\* default prefix
C26_Witness ==
    /\ \A w \in Workers : InFlight(w) /\ exports.reqs[w].kind # "dump"
    /\ Cardinality({exports.reqs[w].path : w \in Workers}) = MaxWorkers

\* a batch dump reads its file back while a batch download is in flight
C26_WitnessMixed ==
    \E w, v \in Workers :
        /\ w # v /\ InFlight(w) /\ InFlight(v)
        /\ exports.reqs[w].kind = "batch_dump" /\ exports.reqs[w].runs = 1
        /\ exports.reqs[w].pc = "read"
        /\ exports.reqs[v].kind = "batch_download"
====
